---- MODULE Spec2Model ----
(***************************************************************************)
(* A model of the smart test selector: the revision-diff service (git.ts), *)
(* the impact resolver (analyzer.ts) and the command-line entry point      *)
(* with its JSON serialisation (index.ts).                                 *)
(*                                                                         *)
(* Text is modelled as a sequence of pieces: one-character strings for a   *)
(* hunk header and a test name, so that parsing the one and escaping the   *)
(* other are computed character by character the way the regular           *)
(* expressions of the source do; separators, names and suffixes for a      *)
(* path and a module specifier.                                            *)
(***************************************************************************)
EXTENDS Integers, Sequences, FiniteSets, TLC

VARIABLES
    pc,                \* the control location of the operation being run
    hunkHeader,        \* git.ts: the hunk header line handed to parseHunkHeader
    hunkLines,         \* git.ts: the line numbers parseHunkHeader returned
    imports,           \* the project: each source file's set of module specifiers
    sourceFilePath,    \* findDependentTestFiles: its argument
    queue,             \* findDependentTestFiles: the BFS queue
    visited,           \* findDependentTestFiles: the visited set
    impactedTestFiles, \* findDependentTestFiles: the impact set, in insertion order
    dependentTestFiles,\* findDependentTestFiles: the array it returned
    disk,              \* the working tree: each test file's content, if readable
    parentTree,        \* what getFileContent(prevCommitSha, path) does for each path
    prevCommitSha,     \* analyze: whether a parent revision was passed
    gitService,        \* analyze: whether a git service was passed
    fileDiff,          \* analyzeTestFile: the FileDiff it is called with
    fileResult,        \* analyzeTestFile: the FileAnalysisResult it returned
    changedFiles,      \* analyze: the list of FileDiffs it is called with
    fileIdx,           \* analyze: the position of its loop in changedFiles
    fileResults,       \* analyze: the results pushed so far
    processedTestFiles,\* analyze: the test files marked as processed
    report,            \* analyze: the AnalysisReport it returned
    previousReport,    \* <<>>, or <<the report of an earlier call of analyze>>
    jsonOutput,        \* toJsonOutput: the JsonOutput it returned
    options,           \* index.ts: the parsed command-line options
    env,               \* main: what the file system, git and ts-morph answer
    stdout,            \* the process: what has been written to standard output
    exitCode,          \* the process: <<>> while it runs, <<status>> once exited
    repository,        \* git.ts: what the git commands answer for the commit
    fileStatuses,      \* getChangedFiles: the status recorded for each path
    diffLines,         \* getChangedFiles: the lines of the raw diff
    diffIdx,           \* getChangedFiles: the position of its loop in diffLines
    diffCurrentFile,   \* getChangedFiles: currentFile, <<>> for null
    currentChangedLines, \* getChangedFiles: the lines collected for that path
    fileDiffs,         \* getChangedFiles: the FileDiffs pushed so far
    thrown,            \* getChangedFiles: <<>>, or the error it threw
    bridgeEnv,         \* the runner bridge: its script, its flags, what it runs
    selectorResult,    \* the runner bridge: what it kept of the selector's run
    runnerCalls,       \* the runner bridge: its invocations of the test runner
    bridgeExit         \* the runner bridge: <<>>, or <<status>> once exited

hunkVars == <<hunkHeader, hunkLines>>
bfsVars == <<sourceFilePath, queue, visited, impactedTestFiles,
             dependentTestFiles>>
worldVars == <<imports, disk, parentTree, prevCommitSha, gitService>>
fileVars == <<fileDiff, fileResult>>
analyzeVars == <<changedFiles, fileIdx, fileResults, processedTestFiles, report,
                 previousReport>>

cliVars == <<jsonOutput, options, env, stdout, exitCode>>

gitVars == <<repository, fileStatuses, diffLines, diffIdx, diffCurrentFile,
             currentChangedLines, fileDiffs, thrown>>

bridgeVars == <<bridgeEnv, selectorResult, runnerCalls, bridgeExit>>

vars == <<pc, hunkVars, bfsVars, worldVars, fileVars, analyzeVars, cliVars,
          gitVars, bridgeVars>>

(***************************************************************************)
(* Generic helpers on sequences.                                           *)
(***************************************************************************)
Range(s) == {s[i] : i \in 1..Len(s)}

\* A JavaScript Set keeps insertion order: a sequence without duplicates.
SetAdd(s, x) == IF x \in Range(s) THEN s ELSE Append(s, x)

\* String.prototype.includes and endsWith on text.
Includes(s, t) ==
    \E p \in 1..(Len(s) - Len(t) + 1) : SubSeq(s, p, p + Len(t) - 1) = t

EndsWith(s, t) ==
    Len(s) >= Len(t) /\ SubSeq(s, Len(s) - Len(t) + 1, Len(s)) = t

(***************************************************************************)
(* git.ts -- GitService.parseHunkHeader                                    *)
(***************************************************************************)

\* The bounds of the hunk headers that are enumerated.
MaxStart == 15
MaxCount == 3

Digits == <<"0", "1", "2", "3", "4", "5", "6", "7", "8", "9">>

IsDigit(c) == c \in Range(Digits)

DigitValue(c) == (CHOOSE i \in 1..10 : Digits[i] = c) - 1

\* The decimal text of a natural number, as git prints it.
RECURSIVE NatText(_)
NatText(n) ==
    IF n < 10 THEN <<Digits[n + 1]>>
    ELSE NatText(n \div 10) \o <<Digits[(n % 10) + 1]>>

\* "@@ -a[,b] +c[,d] @@" followed by the section text git may append; a
\* count is <<n>>, or <<>> when it is omitted.
HunkHeaderText(a, b, c, d, tail) ==
    <<"@", "@", " ", "-">> \o NatText(a)
        \o (IF b = <<>> THEN <<>> ELSE <<",">> \o NatText(b[1]))
        \o <<" ", "+">> \o NatText(c)
        \o (IF d = <<>> THEN <<>> ELSE <<",">> \o NatText(d[1]))
        \o <<" ", "@", "@">> \o tail

\* parseInt(text, 10) on a run of decimal digits.
RECURSIVE ParseInt(_)
ParseInt(text) ==
    IF text = <<>> THEN 0
    ELSE 10 * ParseInt(SubSeq(text, 1, Len(text) - 1)) + DigitValue(text[Len(text)])

\* The position after the literal lit matched at position p of s, 0 if it
\* does not match there.
MatchLit(s, p, lit) ==
    IF p >= 1 /\ p + Len(lit) - 1 <= Len(s) /\ SubSeq(s, p, p + Len(lit) - 1) = lit
    THEN p + Len(lit) ELSE 0

\* \d+ at position p: the position after the longest run of digits, 0 if
\* there is no digit at p.
RECURSIVE DigitRunEnd(_, _)
DigitRunEnd(s, p) ==
    IF p >= 1 /\ p <= Len(s) /\ IsDigit(s[p]) THEN DigitRunEnd(s, p + 1) ELSE p

MatchDigits(s, p) ==
    IF p >= 1 /\ p <= Len(s) /\ IsDigit(s[p]) THEN DigitRunEnd(s, p) ELSE 0

\* (?:,\d+)? at position p: [end, from, to], the digits being s[from..to-1];
\* from = 0 when the group did not take part in the match.
MatchOptCount(s, p) ==
    LET q == MatchLit(s, p, <<",">>)
        r == IF q = 0 THEN 0 ELSE MatchDigits(s, q)
    IN  IF r = 0 THEN [end |-> p, from |-> 0, to |-> 0]
        ELSE [end |-> r, from |-> q, to |-> r]

\* A match holds the text of its two capture groups; a group that took no
\* part in the match (undefined in the source) is the empty text, which no
\* \d+ group can capture.
NoMatch == [ok |-> FALSE, g1 |-> <<>>, g2 |-> <<>>]

\* /@@ -\d+(?:,\d+)? \+(\d+)(?:,(\d+))? @@/ tried at position p.
HunkMatchAt(s, p) ==
    LET p1 == MatchLit(s, p, <<"@", "@", " ", "-">>)
        p2 == IF p1 = 0 THEN 0 ELSE MatchDigits(s, p1)
        o1 == MatchOptCount(s, p2)
        p3 == IF p2 = 0 THEN 0 ELSE MatchLit(s, o1.end, <<" ", "+">>)
        p4 == IF p3 = 0 THEN 0 ELSE MatchDigits(s, p3)
        o2 == MatchOptCount(s, p4)
        p5 == IF p4 = 0 THEN 0 ELSE MatchLit(s, o2.end, <<" ", "@", "@">>)
    IN  IF p5 = 0 THEN NoMatch
        ELSE [ok |-> TRUE,
              g1 |-> SubSeq(s, p3, p4 - 1),
              g2 |-> IF o2.from = 0 THEN <<>> ELSE SubSeq(s, o2.from, o2.to - 1)]

\* String.prototype.match without the g flag: the leftmost match.
RECURSIVE HunkMatchFrom(_, _)
HunkMatchFrom(s, p) ==
    IF p > Len(s) THEN NoMatch
    ELSE LET m == HunkMatchAt(s, p)
         IN  IF m.ok THEN m ELSE HunkMatchFrom(s, p + 1)

HunkMatch(s) == HunkMatchFrom(s, 1)

\* A mutant of ParseLineCount: an omitted count is read as no line at all.
ParseLineCountOmittedAsZero(m) ==
    IF m.g2 = <<>> THEN 0 ELSE ParseInt(m.g2)

\* parseInt(match[2] ?? '1', 10)
ParseLineCount(m) ==
    ParseInt(IF m.g2 = <<>> THEN <<"1">> ELSE m.g2)

\* parseInt(match[1] ?? '0', 10)
ParseStartLine(m) ==
    ParseInt(IF m.g1 = <<>> THEN <<"0">> ELSE m.g1)

\* for (let i = 0; i < lineCount; i++) changedLines.push(startLine + i)
parseHunkHeader(header) ==
    LET m == HunkMatch(header)
    IN  IF ~m.ok THEN <<>>
        ELSE LET startLine == ParseStartLine(m)
                 lineCount == ParseLineCount(m)
             IN  [i \in 1..lineCount |-> startLine + (i - 1)]

\* The hunk headers of a zero-context diff.
OldStarts == {0, 1, 10}
Counts == {<<>>} \cup {<<n>> : n \in 0..MaxCount}
Tails == {<<>>, <<" ", "f", "(", ")">>}
HunkInputs ==
    [a : OldStarts, b : Counts, c : 0..MaxStart, d : Counts, tail : Tails]

\* The parts of the state an operation does not use.
HunkIdle == hunkHeader = <<>> /\ hunkLines = <<>>

BridgeIdle ==
    /\ bridgeEnv = <<>>
    /\ selectorResult = <<>>
    /\ runnerCalls = <<>>
    /\ bridgeExit = <<>>

GitIdle ==
    /\ repository = <<>>
    /\ fileStatuses = <<>>
    /\ diffLines = <<>>
    /\ diffIdx = 0
    /\ diffCurrentFile = <<>>
    /\ currentChangedLines = <<>>
    /\ fileDiffs = <<>>
    /\ thrown = <<>>

CliIdle ==
    /\ jsonOutput = <<>>
    /\ options = <<>>
    /\ env = <<>>
    /\ stdout = <<>>
    /\ exitCode = <<>>

WorldIdle ==
    /\ imports = <<>>
    /\ disk = <<>>
    /\ parentTree = <<>>
    /\ prevCommitSha = FALSE
    /\ gitService = FALSE

FileIdle == fileDiff = <<>> /\ fileResult = <<>>

AnalyzeIdle ==
    /\ changedFiles = <<>>
    /\ fileIdx = 0
    /\ fileResults = <<>>
    /\ processedTestFiles = {}
    /\ report = <<>>
    /\ previousReport = <<>>

BfsIdle ==
    /\ sourceFilePath = <<>>
    /\ queue = <<>>
    /\ visited = {}
    /\ impactedTestFiles = <<>>
    /\ dependentTestFiles = <<>>

HunkInit ==
    /\ pc = "parseHunkHeader"
    /\ GitIdle /\ BridgeIdle /\ BfsIdle /\ WorldIdle /\ FileIdle /\ AnalyzeIdle
    /\ CliIdle
    /\ hunkLines = <<>>
    /\ \E h \in HunkInputs :
          hunkHeader = [text |-> HunkHeaderText(h.a, h.b, h.c, h.d, h.tail),
                        newStart |-> h.c, newCount |-> h.d]

ParseHunk ==
    /\ pc = "parseHunkHeader"
    /\ hunkLines' = parseHunkHeader(hunkHeader.text)
    /\ pc' = "parsed"
    /\ UNCHANGED <<hunkHeader, gitVars, bridgeVars,
                   bfsVars, worldVars, fileVars, analyzeVars, cliVars>>

HunkNext == ParseHunk

SpecHunk == HunkInit /\ [][HunkNext]_vars

\* C2: for the header "@@ -a[,b] +c[,d] @@" parseHunkHeader returns exactly
\* c, c+1, ..., c+d-1 in ascending order, d being 1 when ",d" is omitted and
\* an explicit d = 0 giving no line.
C2_HunkRange ==
    pc = "parsed" =>
        LET d == IF hunkHeader.newCount = <<>> THEN 1 ELSE hunkHeader.newCount[1]
        IN  /\ Len(hunkLines) = d
            /\ \A i \in 1..d : hunkLines[i] = hunkHeader.newStart + i - 1
            /\ Range(hunkLines) = hunkHeader.newStart..(hunkHeader.newStart + d - 1)

\* The header "@@ -a[,b] +15,3 @@" of the claim has been parsed.
C2_Witness ==
    /\ pc = "parsed"
    /\ hunkHeader.newStart = 15
    /\ hunkHeader.newCount = <<3>>
    /\ hunkLines = <<15, 16, 17>>

(***************************************************************************)
(* analyzer.ts -- the project and its import graph                         *)
(*                                                                         *)
(* A path is text whose pieces are "/", a directory name, a file stem or   *)
(* a suffix; a module specifier is text of the same pieces.                *)
(***************************************************************************)
RepoPath == <<"/", "repo">>

FileH == RepoPath \o <<"/", "h", ".ts">>
FileH2 == RepoPath \o <<"/", "h", "2", ".ts">>
FileK == RepoPath \o <<"/", "k", ".ts">>
FileASpec == RepoPath \o <<"/", "a", ".spec", ".ts">>
FileBTest == RepoPath \o <<"/", "b", ".test", ".ts">>
FileVendor == RepoPath \o <<"/", "node_modules", "/", "v", ".ts">>

\* project.getSourceFiles() once repoPath/**/*.ts has been added.
ProjectFiles == <<FileH, FileH2, FileK, FileASpec, FileBTest, FileVendor>>

\* The module specifiers an import declaration of the project may carry.
Specifiers ==
    { <<".", "/", "h">>, <<".", "/", "h", "2">>, <<".", "/", "k">>, <<"v">> }

\* isTestFile
isTestFile(filePath) ==
    EndsWith(filePath, <<".spec", ".ts">>) \/ EndsWith(filePath, <<".test", ".ts">>)

\* isNodeModulesFile (paths are POSIX paths, which hold no backslash)
isNodeModulesFile(filePath) ==
    Includes(filePath, <<"/", "node_modules", "/">>)

\* The last segment of a path.
RECURSIVE LastSegment(_)
LastSegment(filePath) ==
    IF \E i \in 1..Len(filePath) : filePath[i] = "/"
    THEN LastSegment(Tail(filePath)) ELSE filePath

\* path.basename(p, '.ts')
BasenameTs(filePath) ==
    LET name == LastSegment(filePath)
    IN  IF Len(name) > 1 /\ EndsWith(name, <<".ts">>)
        THEN SubSeq(name, 1, Len(name) - 1) ELSE name

\* .replace(/\.tsx?$/, '')
StripTsExtension(name) ==
    IF EndsWith(name, <<".ts">>) \/ EndsWith(name, <<".tsx">>)
    THEN SubSeq(name, 1, Len(name) - 1) ELSE name

\* The body of the loop of findDirectImporters: whether filePath is pushed.
ImporterMatches(graph, filePath, targetFilePath) ==
    /\ ~isNodeModulesFile(filePath)
    /\ filePath # targetFilePath
    /\ \E moduleSpecifier \in graph[filePath] :
          Includes(moduleSpecifier, StripTsExtension(BasenameTs(targetFilePath)))

\* findDirectImporters
findDirectImporters(graph, targetFilePath) ==
    SelectSeq(ProjectFiles, LAMBDA f : ImporterMatches(graph, f, targetFilePath))

(***************************************************************************)
(* analyzer.ts -- Analyzer.findDependentTestFiles                          *)
(***************************************************************************)

\* A mutant of MarkVisited: the file is never recorded as visited.
MarkVisitedNever(seen, filePath) == seen

\* visited.add(normalizedCurrentFile)
MarkVisited(seen, filePath) == seen \cup {filePath}

\* queue.push(normalizedImporter)
EnqueueImporter(q, importerPath) == Append(q, importerPath)

\* A mutant of IsLeaf: no importer is a leaf, test files are expanded too.
IsLeafNever(importerPath) == FALSE

\* if (this.isTestFile(importerPath)): a test file ends the traversal
IsLeaf(importerPath) == isTestFile(importerPath)

\* The for loop over the importers of the current file.
RECURSIVE VisitImporters(_, _)
VisitImporters(st, importers) ==
    IF importers = <<>> THEN st
    ELSE LET importerPath == Head(importers)
             next ==
                 IF importerPath \in st.visited THEN st
                 ELSE IF isNodeModulesFile(importerPath) THEN st
                 ELSE IF IsLeaf(importerPath)
                      THEN [st EXCEPT !.impacted = SetAdd(@, importerPath)]
                      ELSE [st EXCEPT !.queue = EnqueueImporter(@, importerPath)]
         IN  VisitImporters(next, Tail(importers))

\* One iteration of the while loop: queue.shift() and what follows.
BfsIteration(graph, st) ==
    LET currentFile == Head(st.queue)
        shifted == [st EXCEPT !.queue = Tail(@)]
    IN  IF currentFile \in st.visited THEN shifted
        ELSE LET marked == [shifted EXCEPT !.visited = MarkVisited(@, currentFile)]
             IN  IF isNodeModulesFile(currentFile) THEN marked
                 ELSE VisitImporters(marked, findDirectImporters(graph, currentFile))

\* const queue = [path.resolve(sourceFilePath)], two empty sets
BfsStart(filePath) ==
    [queue |-> <<filePath>>, visited |-> {}, impacted |-> <<>>]

\* The loop run to its end: what findDependentTestFiles returns.
RECURSIVE BfsRun(_, _)
BfsRun(graph, st) ==
    IF st.queue = <<>> THEN st.impacted ELSE BfsRun(graph, BfsIteration(graph, st))

findDependentTestFiles(graph, filePath) == BfsRun(graph, BfsStart(filePath))

\* The bound of the import graphs that are enumerated: their number of
\* import declarations.
MaxImports == 3

\* The import declarations a project may hold: any specifier in a file of
\* the repository itself, and the import of k in the vendored file.
AllImports ==
    {<<f, sp>> : f \in Range(ProjectFiles) \ {FileVendor}, sp \in Specifiers}
        \cup {<<FileVendor, <<".", "/", "k">>>>}

RECURSIVE ImportSets(_)
ImportSets(k) ==
    IF k = 0 THEN {{}}
    ELSE LET smaller == ImportSets(k - 1)
         IN  smaller \cup {E \cup {e} : E \in smaller, e \in AllImports}

GraphOf(E) ==
    [f \in Range(ProjectFiles) |-> {sp \in Specifiers : <<f, sp>> \in E}]

\* No run of the source holds more queue entries than this; the guard only
\* keeps a traversal that never ends within finitely many states.
QueueCap == 2 * MaxImports + 2

BfsInit ==
    /\ pc = "bfs"
    /\ HunkIdle /\ BridgeIdle /\ GitIdle /\ FileIdle /\ AnalyzeIdle /\ CliIdle
    /\ disk = <<>>
    /\ parentTree = <<>>
    /\ prevCommitSha = FALSE
    /\ gitService = FALSE
    /\ \E E \in ImportSets(MaxImports) : imports = GraphOf(E)
    /\ \E f \in {g \in Range(ProjectFiles) : ~isTestFile(g)} :
          /\ sourceFilePath = f
          /\ queue = BfsStart(f).queue
    /\ visited = {}
    /\ impactedTestFiles = <<>>
    /\ dependentTestFiles = <<>>

BfsLoop ==
    /\ pc = "bfs"
    /\ queue # <<>>
    /\ Len(queue) <= QueueCap
    /\ LET st == BfsIteration(imports, [queue |-> queue, visited |-> visited,
                                        impacted |-> impactedTestFiles])
       IN  /\ queue' = st.queue
           /\ visited' = st.visited
           /\ impactedTestFiles' = st.impacted
    /\ UNCHANGED <<pc, sourceFilePath, dependentTestFiles, hunkVars, bridgeVars, gitVars, worldVars,
                   fileVars, analyzeVars, cliVars>>

BfsReturn ==
    /\ pc = "bfs"
    /\ queue = <<>>
    /\ dependentTestFiles' = impactedTestFiles
    /\ pc' = "bfs_done"
    /\ UNCHANGED <<sourceFilePath, queue, visited, impactedTestFiles,
                   hunkVars, bridgeVars, gitVars, worldVars, fileVars, analyzeVars, cliVars>>

BfsNext == BfsLoop \/ BfsReturn

SpecBfs == BfsInit /\ [][BfsNext]_vars

\* The traversal is one synchronous loop: it is never suspended.
SpecBfsFair == SpecBfs /\ WF_vars(BfsNext)

\* "importer directly imports target", as findDirectImporters decides it.
DirectlyImports(importer, target) ==
    importer \in Range(findDirectImporters(imports, target))

\* The files a chain from S may pass through: S, and every non-test file
\* outside node_modules that directly imports a file a chain passes through.
RECURSIVE ChainFiles(_)
ChainFiles(R) ==
    LET more == {f \in Range(ProjectFiles) :
                    /\ ~isTestFile(f)
                    /\ ~isNodeModulesFile(f)
                    /\ \E r \in R : DirectlyImports(f, r)}
    IN  IF more \subseteq R THEN R ELSE ChainFiles(R \cup more)

\* The test files at the end of a chain S = f0, f1, ..., fk = T (k >= 1).
ChainTests(S) ==
    {T \in Range(ProjectFiles) :
        isTestFile(T) /\ \E r \in ChainFiles({S}) : DirectlyImports(T, r)}

\* C4, as claimed: findDependentTestFiles(S) returns exactly the test files
\* at the end of an import chain that starts at S and passes only through
\* non-test files outside node_modules.
C4_ChainTestsAnySource ==
    pc = "bfs_done" => Range(dependentTestFiles) = ChainTests(sourceFilePath)

\* C4, amended: that holds for a file S outside node_modules; for a file S
\* inside node_modules the result is empty.
C4_ChainTests ==
    pc = "bfs_done" =>
        Range(dependentTestFiles) =
            IF isNodeModulesFile(sourceFilePath) THEN {}
            ELSE ChainTests(sourceFilePath)

\* Test imports Helper1 imports Helper2, and a change of Helper2 alone has
\* yielded Test.
C4_Witness ==
    /\ pc = "bfs_done"
    /\ sourceFilePath = FileK
    /\ imports[FileH] = {<<".", "/", "k">>}
    /\ imports[FileASpec] = {<<".", "/", "h">>}
    /\ dependentTestFiles = <<FileASpec>>

\* C5: for every import graph, cycles among helper files and
\* self-referencing specifiers included, the traversal ends: the queue
\* becomes empty and a result is returned.
C5_BfsTerminates == <>(pc = "bfs_done" /\ queue = <<>>)

\* Helper1 imports Helper2, Helper2 imports Helper1 and itself, and the
\* traversal from Helper1 has returned after visiting both.
C5_Witness ==
    /\ pc = "bfs_done"
    /\ sourceFilePath = FileH
    /\ <<".", "/", "k">> \in imports[FileH]
    /\ {<<".", "/", "h">>, <<".", "/", "k">>} \subseteq imports[FileK]
    /\ {FileH, FileK} \subseteq visited

\* The name of a file without its directory and without its extension.
FileNameWithoutExtension(filePath) ==
    LET name == LastSegment(filePath)
    IN  SubSeq(name, 1, Len(name) - 1)

\* The first-party files other than target with an import whose module
\* specifier names target's base name: its last segment is that name.
ImportersByName(target) ==
    {f \in Range(ProjectFiles) :
        /\ ~Includes(f, <<"node_modules">>)
        /\ f # target
        /\ \E moduleSpecifier \in imports[f] :
              LastSegment(moduleSpecifier) = FileNameWithoutExtension(target)}

\* C24: findDirectImporters(target) returns exactly the first-party files,
\* other than target, with an import whose specifier refers to target's
\* base name, each once; a file whose specifiers hold the base name only as
\* part of a longer name is not an importer.  It is stated of the targets
\* the traversal has called findDirectImporters for.
C24_DirectImporters ==
    \A target \in visited :
        ~isNodeModulesFile(target) =>
            LET importers == findDirectImporters(imports, target)
            IN  /\ Range(importers) = ImportersByName(target)
                /\ \A i \in 1..Len(importers) : \A j \in 1..Len(importers) :
                       i # j => importers[i] # importers[j]

(***************************************************************************)
(* analyzer.ts -- test declarations                                        *)
(*                                                                         *)
(* A source file is modelled by its call expressions, in document order:   *)
(* the called expression's text, the kind and text of the first argument   *)
(* and the lines the call spans.                                           *)
(***************************************************************************)

\* text.slice(1, -1)
SliceQuotes(text) ==
    IF Len(text) < 2 THEN <<>> ELSE SubSeq(text, 2, Len(text) - 1)

\* The TestBlockInfo of one call expression (the body of the loop of
\* extractTestBlocks, for a call that passed the function-name test).
TestBlockOf(call) ==
    LET named ==
            IF call.argKind = "none"
                THEN [name |-> <<"unnamed test">>, isDynamic |-> FALSE]
            ELSE IF call.argKind = "StringLiteral"
                THEN [name |-> SliceQuotes(call.argText), isDynamic |-> FALSE]
            ELSE IF call.argKind = "NoSubstitutionTemplateLiteral"
                THEN [name |-> SliceQuotes(call.argText), isDynamic |-> FALSE]
            ELSE IF call.argKind = "TemplateExpression"
                THEN [name |-> SliceQuotes(call.argText), isDynamic |-> TRUE]
            ELSE [name |-> <<"[dynamic: ">> \o call.argText \o <<"]">>,
                  isDynamic |-> TRUE]
    IN  [name |-> named.name, startLine |-> call.startLine,
         endLine |-> call.endLine, isDynamic |-> named.isDynamic]

\* ['test', 'it', 'describe'].includes(functionName)
IsTestCall(call) == call.fn \in {"test", "it", "describe"}

\* extractTestBlocks
RECURSIVE extractTestBlocks(_)
extractTestBlocks(calls) ==
    IF calls = <<>> THEN <<>>
    ELSE (IF IsTestCall(Head(calls)) THEN <<TestBlockOf(Head(calls))>> ELSE <<>>)
             \o extractTestBlocks(Tail(calls))

\* Array.prototype.map on a sequence.
MapSeq(s, F(_)) == [i \in 1..Len(s) |-> F(s[i])]

\* findRemovedTests
findRemovedTests(oldTests, newTests) ==
    LET newTestNames == {newTests[i].name : i \in 1..Len(newTests)}
    IN  MapSeq(SelectSeq(oldTests, LAMBDA oldTest : oldTest.name \notin newTestNames),
               LAMBDA t : t.name)

\* A mutant of LineInBlock: the first line of a block does not count.
LineInBlockAfterStart(line, testStartLine, testEndLine) ==
    line > testStartLine /\ line <= testEndLine

\* line >= testStartLine && line <= testEndLine
LineInBlock(line, testStartLine, testEndLine) ==
    line >= testStartLine /\ line <= testEndLine

\* A mutant of hasIntersection: a file with no changed line is taken as
\* changed everywhere.
RECURSIVE hasIntersectionOrNoLine(_, _, _)
hasIntersectionOrNoLine(testStartLine, testEndLine, changedLines) ==
    IF changedLines = <<>> THEN TRUE
    ELSE \/ LineInBlock(Head(changedLines), testStartLine, testEndLine)
         \/ /\ Tail(changedLines) # <<>>
            /\ hasIntersectionOrNoLine(testStartLine, testEndLine,
                                       Tail(changedLines))

\* hasIntersection: changedLines.some(...)
RECURSIVE hasIntersection(_, _, _)
hasIntersection(testStartLine, testEndLine, changedLines) ==
    IF changedLines = <<>> THEN FALSE
    ELSE \/ LineInBlock(Head(changedLines), testStartLine, testEndLine)
         \/ hasIntersection(testStartLine, testEndLine, Tail(changedLines))

(***************************************************************************)
(* analyzer.ts -- Analyzer.analyzeTestFile and analyzeDependentTestFile    *)
(*                                                                         *)
(* The working tree gives, for a file, [ok, calls]: ok is FALSE when the   *)
(* file cannot be added to the project (addSourceFileAtPath throws).       *)
(* getFileContent gives [kind, parses, calls]: kind is "throws", "null"    *)
(* (no such path at that revision) or "text"; parses is FALSE when         *)
(* extractTestBlocksFromContent fails on the text and returns null.        *)
(***************************************************************************)
ImpactedTest(name, file, impact, dynamic) ==
    [testName |-> name, fileName |-> file, impactType |-> impact,
     isDynamic |-> dynamic]

FileAnalysisResult(path, status, tests, dynamic) ==
    [filePath |-> path, status |-> status, tests |-> tests,
     hasDynamicTests |-> dynamic]

AnyDynamic(tests) == \E i \in 1..Len(tests) : tests[i].isDynamic

\* oldTests of the parent revision, or <<>> when a guard or a catch of the
\* source leaves the list untouched; found tells which.
OldTests(hasPrev, hasGit, parent) ==
    IF hasPrev /\ hasGit /\ parent.kind = "text" /\ parent.parses
    THEN [found |-> TRUE, tests |-> extractTestBlocks(parent.calls)]
    ELSE [found |-> FALSE, tests |-> <<>>]

\* The branch of analyzeTestFile for a deleted file.
DeletedFileTests(diff, hasPrev, hasGit, parent) ==
    MapSeq(OldTests(hasPrev, hasGit, parent).tests,
           LAMBDA oldTest : ImpactedTest(oldTest.name, diff.path, "REMOVED",
                                         oldTest.isDynamic))

\* The tests pushed with impactType DIRECT.
DirectTests(diff, currentTestBlocks) ==
    MapSeq(SelectSeq(currentTestBlocks,
                     LAMBDA b : hasIntersection(b.startLine, b.endLine,
                                                diff.changedLines)),
           LAMBDA b : ImpactedTest(b.name, diff.path, "DIRECT", b.isDynamic))

\* A mutant of RemovedTests: every test of the parent version is reported.
RemovedTestsAllOld(diff, currentTestBlocks, hasPrev, hasGit, parent) ==
    IF diff.status = "MODIFIED"
    THEN DeletedFileTests(diff, hasPrev, hasGit, parent) ELSE <<>>

\* The tests pushed with impactType REMOVED for a file that is not deleted.
RemovedTests(diff, currentTestBlocks, hasPrev, hasGit, parent) ==
    LET old == OldTests(hasPrev, hasGit, parent)
    IN  IF diff.status = "MODIFIED" /\ old.found
        THEN MapSeq(findRemovedTests(old.tests, currentTestBlocks),
                    LAMBDA removedTestName :
                        LET i == CHOOSE i \in 1..Len(old.tests) :
                                    /\ old.tests[i].name = removedTestName
                                    /\ \A j \in 1..(i - 1) :
                                          old.tests[j].name # removedTestName
                        IN  ImpactedTest(removedTestName, diff.path, "REMOVED",
                                         old.tests[i].isDynamic))
        ELSE <<>>

\* A mutant of DirectHasDynamic: a dynamic test anywhere in the file sets
\* the flag, whether it meets a changed line or not.
DirectHasDynamicAnywhere(diff, currentTestBlocks) ==
    \E i \in 1..Len(currentTestBlocks) : currentTestBlocks[i].isDynamic

\* if (testBlock.isDynamic) hasDynamicTests = true, inside the test of
\* hasIntersection of the loop over currentTestBlocks.
DirectHasDynamic(diff, currentTestBlocks) ==
    \E i \in 1..Len(currentTestBlocks) :
        /\ hasIntersection(currentTestBlocks[i].startLine,
                           currentTestBlocks[i].endLine, diff.changedLines)
        /\ currentTestBlocks[i].isDynamic

\* analyzeTestFile
analyzeTestFile(diff, content, hasPrev, hasGit, parent) ==
    LET currentTestBlocks == extractTestBlocks(content.calls)
        removed == RemovedTests(diff, currentTestBlocks, hasPrev, hasGit, parent)
        tests ==
            IF diff.status = "DELETED"
                THEN DeletedFileTests(diff, hasPrev, hasGit, parent)
            ELSE IF ~content.ok THEN <<>>
            ELSE DirectTests(diff, currentTestBlocks) \o removed
        hasDynamicTests ==
            IF diff.status = "DELETED" THEN AnyDynamic(tests)
            ELSE IF ~content.ok THEN FALSE
            ELSE DirectHasDynamic(diff, currentTestBlocks) \/ AnyDynamic(removed)
    IN  FileAnalysisResult(diff.path, diff.status, tests, hasDynamicTests)

\* path.resolve(repoPath, relative) and path.relative(repoPath, absolute)
ResolvePath(relativePath) == RepoPath \o <<"/">> \o relativePath

RelativePath(absolutePath) ==
    SubSeq(absolutePath, Len(RepoPath) + 2, Len(absolutePath))

\* A mutant of analyzeDependentTestFile: a file that cannot be read is
\* reported with a test all the same.
analyzeDependentTestFileUncaught(testFilePath, sourceFileDiff, content) ==
    LET relativePath == RelativePath(testFilePath)
        tests ==
            IF ~content.ok
            THEN <<ImpactedTest(<<"unnamed test">>, relativePath, "DEPENDENCY",
                                FALSE)>>
            ELSE MapSeq(extractTestBlocks(content.calls),
                        LAMBDA b : ImpactedTest(b.name, relativePath, "DEPENDENCY",
                                                b.isDynamic))
    IN  FileAnalysisResult(relativePath, sourceFileDiff.status, tests,
                           AnyDynamic(tests))

\* analyzeDependentTestFile
analyzeDependentTestFile(testFilePath, sourceFileDiff, content) ==
    LET relativePath == RelativePath(testFilePath)
        tests ==
            IF ~content.ok THEN <<>>
            ELSE MapSeq(extractTestBlocks(content.calls),
                        LAMBDA b : ImpactedTest(b.name, relativePath, "DEPENDENCY",
                                                b.isDynamic))
    IN  FileAnalysisResult(relativePath, sourceFileDiff.status, tests,
                           AnyDynamic(tests))

(***************************************************************************)
(* The inputs of analyzeTestFile that are enumerated.                      *)
(***************************************************************************)

\* The bound of the line numbers of spans and changed lines.
MaxLine == 3

Spans == {sp \in (1..MaxLine) \X (1..MaxLine) : sp[1] <= sp[2]}

\* The ascending list of a set of line numbers.
RECURSIVE Ascending(_)
Ascending(S) ==
    IF S = {} THEN <<>>
    ELSE LET m == CHOOSE x \in S : \A y \in S : x <= y
         IN  <<m>> \o Ascending(S \ {m})

LineLists == {Ascending(S) : S \in SUBSET (1..MaxLine)}

Call(fn, argKind, argText, span) ==
    [fn |-> fn, argKind |-> argKind, argText |-> argText,
     startLine |-> span[1], endLine |-> span[2]]

\* test('a', ...), it(`u${i}`, ...) and describe(`c`, ...) over a span, and
\* a call that declares no test. "<backtick>" stands for the backtick.
TestA(span) == Call("test", "StringLiteral", <<"'", "a", "'">>, span)
TestU(span) == Call("it", "TemplateExpression", <<"<backtick>", "u", "${i}", "<backtick>">>, span)
TestC(span) == Call("describe", "NoSubstitutionTemplateLiteral", <<"<backtick>", "c", "<backtick>">>, span)
ExpectCall == Call("expect", "Identifier", <<"x">>, <<1, 1>>)

\* Two calls in document order: the second starts no earlier, and lies
\* inside the first or after it.
InDocumentOrder(c1, c2) ==
    /\ c1.startLine <= c2.startLine
    /\ c2.endLine <= c1.endLine \/ c1.endLine <= c2.startLine

CurrentCalls == {TestA(sp) : sp \in Spans} \cup {TestU(sp) : sp \in Spans}
                    \cup {ExpectCall}

CurrentContents ==
    {<<>>} \cup {<<c>> : c \in CurrentCalls}
        \cup {pair \in CurrentCalls \X CurrentCalls :
                    InDocumentOrder(pair[1], pair[2])}

ParentCalls == {TestA(<<1, 1>>), TestU(<<1, 1>>), TestC(<<1, 1>>)}

ParentContents ==
    {<<>>} \cup {<<c>> : c \in ParentCalls}
        \cup {<<c1, c2>> : c1 \in ParentCalls, c2 \in ParentCalls}

Readable(calls) == [ok |-> TRUE, calls |-> calls]
Unreadable == [ok |-> FALSE, calls |-> <<>>]

ParentThrows == [kind |-> "throws", parses |-> FALSE, calls |-> <<>>]
ParentNull == [kind |-> "null", parses |-> FALSE, calls |-> <<>>]
ParentUnparsed == [kind |-> "text", parses |-> FALSE, calls |-> <<>>]
ParentText(calls) == [kind |-> "text", parses |-> TRUE, calls |-> calls]

ParentResults ==
    {ParentThrows, ParentNull, ParentUnparsed}
        \cup {ParentText(c) : c \in ParentContents}

PathASpec == <<"a", ".spec", ".ts">>
PathBTest == <<"b", ".test", ".ts">>
PathH == <<"h", ".ts">>
PathK == <<"k", ".ts">>

FileDiff(path, status, changedLines) ==
    [path |-> path, status |-> status, changedLines |-> changedLines]

\* analyzeTestFile is called with a parent revision and a git service, with
\* a git service alone (no parent revision was found), or with neither.
FileInit ==
    /\ pc = "analyzeTestFile"
    /\ HunkIdle /\ BridgeIdle /\ GitIdle /\ BfsIdle /\ AnalyzeIdle /\ CliIdle
    /\ imports = <<>>
    /\ fileResult = <<>>
    /\ \/ /\ \E lines \in LineLists : fileDiff = FileDiff(PathASpec, "MODIFIED", lines)
          /\ \E c \in CurrentContents : disk = (FileASpec :> Readable(c))
          /\ \/ /\ prevCommitSha = TRUE /\ gitService = TRUE
                /\ \E r \in ParentResults : parentTree = (PathASpec :> r)
             \/ /\ prevCommitSha = FALSE /\ gitService \in BOOLEAN
                /\ parentTree = (PathASpec :> ParentText(<<TestC(<<1, 1>>)>>))
       \/ /\ \E st \in {"ADDED", "RENAMED"}, lines \in LineLists :
                fileDiff = FileDiff(PathASpec, st, lines)
          /\ \E c \in CurrentContents : disk = (FileASpec :> Readable(c))
          /\ prevCommitSha = TRUE /\ gitService = TRUE
          /\ parentTree = (PathASpec :> ParentNull)
       \/ /\ \E st \in {"ADDED", "MODIFIED", "RENAMED"}, lines \in LineLists :
                fileDiff = FileDiff(PathASpec, st, lines)
          /\ disk = (FileASpec :> Unreadable)
          /\ prevCommitSha = TRUE /\ gitService = TRUE
          /\ parentTree = (PathASpec :> ParentText(<<TestC(<<1, 1>>)>>))
       \/ /\ fileDiff = FileDiff(PathASpec, "DELETED", <<>>)
          /\ disk = (FileASpec :> Unreadable)
          /\ \/ /\ prevCommitSha = TRUE /\ gitService = TRUE
                /\ \E r \in ParentResults : parentTree = (PathASpec :> r)
             \/ /\ prevCommitSha = FALSE /\ gitService \in BOOLEAN
                /\ parentTree = (PathASpec :> ParentText(<<TestC(<<1, 1>>)>>))

AnalyzeTestFileCall ==
    /\ pc = "analyzeTestFile"
    /\ fileResult' = analyzeTestFile(fileDiff, disk[ResolvePath(fileDiff.path)],
                                     prevCommitSha, gitService,
                                     parentTree[fileDiff.path])
    /\ pc' = "analyzed"
    /\ UNCHANGED <<fileDiff, hunkVars, bridgeVars, gitVars, bfsVars, worldVars, analyzeVars, cliVars>>

FileNext == AnalyzeTestFileCall

SpecFile == FileInit /\ [][FileNext]_vars

\* The declarations of the current version of the analysed file.
CurrentBlocks == extractTestBlocks(disk[ResolvePath(fileDiff.path)].calls)

\* The entries of a result with one impact type.
TestsOfType(result, impact) ==
    SelectSeq(result.tests, LAMBDA t : t.impactType = impact)

\* C1: for a test file that is not deleted, the declarations reported as
\* DIRECT are exactly those whose span [startLine, endLine] holds at least
\* one changed line; a declaration with no changed line in its span is not
\* reported as DIRECT.
C1_DirectIffIntersects ==
    (pc = "analyzed" /\ fileDiff.status # "DELETED"
        /\ disk[ResolvePath(fileDiff.path)].ok) =>
        LET touched(b) == \E v \in Range(fileDiff.changedLines) :
                              b.startLine <= v /\ v <= b.endLine
        IN  TestsOfType(fileResult, "DIRECT") =
                MapSeq(SelectSeq(CurrentBlocks, touched),
                       LAMBDA b : ImpactedTest(b.name, fileDiff.path, "DIRECT",
                                               b.isDynamic))

\* Two declarations, the first with its first line alone changed and
\* reported, the second with every changed line above it and not reported.
C1_Witness ==
    /\ pc = "analyzed"
    /\ fileDiff.status = "MODIFIED"
    /\ fileDiff.changedLines = <<1>>
    /\ disk[FileASpec].calls = <<TestA(<<1, 2>>), TestU(<<2, 3>>)>>
    /\ TestsOfType(fileResult, "DIRECT") =
           <<ImpactedTest(<<"a">>, PathASpec, "DIRECT", FALSE)>>

\* The names a list of declarations or of reported tests holds.
BlockNames(blocks) == {blocks[i].name : i \in 1..Len(blocks)}
TestNames(tests) == {tests[i].testName : i \in 1..Len(tests)}

\* C3: for a MODIFIED test file whose parent content is available, the
\* names reported as REMOVED are exactly the names declared in the parent
\* version that the current version does not declare; a test whose name is
\* unchanged is not reported as REMOVED whatever its lines, and a renamed
\* test is reported under its old name.
C3_RemovedIsNameDifference ==
    (pc = "analyzed" /\ fileDiff.status = "MODIFIED"
        /\ prevCommitSha /\ gitService
        /\ disk[ResolvePath(fileDiff.path)].ok
        /\ parentTree[fileDiff.path].kind = "text"
        /\ parentTree[fileDiff.path].parses) =>
        TestNames(TestsOfType(fileResult, "REMOVED")) =
            BlockNames(extractTestBlocks(parentTree[fileDiff.path].calls))
                \ BlockNames(CurrentBlocks)

\* The parent version declared 'a' and `c`; the current one declares 'a'
\* on other lines and no `c`: `c` alone is reported as REMOVED.
C3_Witness ==
    /\ pc = "analyzed"
    /\ fileDiff.status = "MODIFIED"
    /\ prevCommitSha /\ gitService
    /\ parentTree[PathASpec] = ParentText(<<TestA(<<1, 1>>), TestC(<<1, 1>>)>>)
    /\ disk[FileASpec].calls = <<TestA(<<2, 3>>)>>
    /\ TestNames(TestsOfType(fileResult, "REMOVED")) = {<<"c">>}

(***************************************************************************)
(* analyzer.ts -- Analyzer.analyze                                         *)
(***************************************************************************)

\* A mutant of TestFileChange: a result is kept only when it holds a test.
TestFileChangeIfTests(st, diff, content, hasPrev, hasGit, parent) ==
    LET absolutePath == ResolvePath(diff.path)
        result == analyzeTestFile(diff, content, hasPrev, hasGit, parent)
    IN  IF Len(result.tests) > 0
        THEN [results |-> Append(st.results, result),
              processed |-> st.processed \cup {absolutePath}]
        ELSE st

\* A mutant of TestFileChange: the result is kept and the file marked as
\* processed whatever the result holds.
TestFileChangeAlways(st, diff, content, hasPrev, hasGit, parent) ==
    [results |-> Append(st.results,
                        analyzeTestFile(diff, content, hasPrev, hasGit, parent)),
     processed |-> st.processed \cup {ResolvePath(diff.path)}]

\* The test-file branch of the loop of analyze; st holds fileResults and
\* processedTestFiles.
TestFileChange(st, diff, content, hasPrev, hasGit, parent) ==
    LET absolutePath == ResolvePath(diff.path)
        result == analyzeTestFile(diff, content, hasPrev, hasGit, parent)
    IN  IF Len(result.tests) > 0 \/ diff.status = "DELETED"
        THEN [results |-> Append(st.results, result),
              processed |-> st.processed \cup {absolutePath}]
        ELSE st

\* The loop over dependentTestFiles in the source-file branch.
RECURSIVE DependentTestFiles(_, _, _, _)
DependentTestFiles(st, testFilePaths, diff, tree) ==
    IF testFilePaths = <<>> THEN st
    ELSE LET testFilePath == Head(testFilePaths)
             result == analyzeDependentTestFile(testFilePath, diff,
                                                tree[testFilePath])
             next ==
                 IF testFilePath \in st.processed THEN st
                 ELSE IF Len(result.tests) > 0
                      THEN [results |-> Append(st.results, result),
                            processed |-> st.processed \cup {testFilePath}]
                      ELSE st
         IN  DependentTestFiles(next, Tail(testFilePaths), diff, tree)

\* The source-file branch of the loop of analyze.
SourceFileChange(st, diff, graph, tree) ==
    DependentTestFiles(st, findDependentTestFiles(graph, ResolvePath(diff.path)),
                       diff, tree)

\* A mutant of TotalTests: the results are counted, not their tests.
TotalTestsCountingResults(results) == Len(results)

\* fileResults.reduce((sum, result) => sum + result.tests.length, 0)
RECURSIVE TotalTests(_)
TotalTests(results) ==
    IF results = <<>> THEN 0
    ELSE Len(Head(results).tests) + TotalTests(Tail(results))

AnalysisReport(results, total) ==
    [fileResults |-> results, totalTestsSelected |-> total]

\* The bound of the number of changed files of a commit.
MaxChanges == 2

\* The import declarations the enumerated projects are made of: a.spec
\* imports the helper h, b.test imports the helper k, h imports k.
AnalyzeImports ==
    { <<FileASpec, <<".", "/", "h">>>>, <<FileBTest, <<".", "/", "k">>>>,
      <<FileH, <<".", "/", "k">>>> }

\* What a commit can say of a file: a test file modified with no line or
\* with its first line changed, added with two lines, or deleted; a helper
\* modified or deleted.
TestFileDiffs(path) ==
    { FileDiff(path, "MODIFIED", <<>>), FileDiff(path, "MODIFIED", <<1>>),
      FileDiff(path, "ADDED", <<1, 2>>), FileDiff(path, "DELETED", <<>>) }

SourceFileDiffs(path) ==
    { FileDiff(path, "MODIFIED", <<1>>), FileDiff(path, "DELETED", <<>>) }

PossibleDiffs ==
    TestFileDiffs(PathASpec) \cup TestFileDiffs(PathBTest)
        \cup SourceFileDiffs(PathH) \cup SourceFileDiffs(PathK)

\* The lists of at most n FileDiffs, one per path at most.
RECURSIVE ChangeLists(_)
ChangeLists(n) ==
    IF n = 0 THEN {<<>>}
    ELSE LET shorter == ChangeLists(n - 1)
         IN  shorter \cup
                 {Append(l, d) : l \in shorter,
                                 d \in PossibleDiffs}

DistinctPaths(l) ==
    \A i \in 1..Len(l) : \A j \in 1..Len(l) : i # j => l[i].path # l[j].path

\* The working trees and parent revisions that are enumerated.
AnalyzeDisks ==
    { (FileASpec :> a) @@ (FileBTest :> b) :
        a \in { Readable(<<TestA(<<1, 1>>), TestU(<<2, 3>>)>>),
                Readable(<<TestA(<<1, 2>>)>>), Unreadable },
        b \in { Readable(<<TestC(<<1, 2>>), TestA(<<2, 2>>)>>),
                Readable(<<ExpectCall>>) } }

AnalyzeParents ==
    { (PathASpec :> a) @@ (PathBTest :> ParentText(<<TestC(<<1, 1>>)>>)) :
        a \in { ParentNull, ParentThrows, ParentUnparsed,
                 ParentText(<<TestA(<<1, 1>>), TestC(<<1, 1>>)>>) } }

AnalyzeInit ==
    /\ pc = "analyze"
    /\ HunkIdle /\ BridgeIdle /\ GitIdle /\ BfsIdle /\ FileIdle /\ CliIdle
    /\ \E E \in SUBSET AnalyzeImports : imports = GraphOf(E)
    /\ disk \in AnalyzeDisks
    /\ parentTree \in AnalyzeParents
    /\ prevCommitSha = TRUE
    /\ gitService = TRUE
    /\ changedFiles \in {l \in ChangeLists(MaxChanges) : DistinctPaths(l)}
    /\ fileIdx = 1
    /\ fileResults = <<>>
    /\ processedTestFiles = {}
    /\ report = <<>>
    /\ previousReport = <<>>

AnalyzeState == [results |-> fileResults, processed |-> processedTestFiles]

\* if (this.isTestFile(fileDiff.path))
AnalyzeTestFileChange ==
    /\ pc = "analyze"
    /\ fileIdx <= Len(changedFiles)
    /\ LET diff == changedFiles[fileIdx]
       IN  /\ isTestFile(diff.path)
           /\ LET st == TestFileChange(AnalyzeState, diff,
                                       disk[ResolvePath(diff.path)],
                                       prevCommitSha, gitService,
                                       parentTree[diff.path])
              IN  /\ fileResults' = st.results
                  /\ processedTestFiles' = st.processed
    /\ fileIdx' = fileIdx + 1
    /\ UNCHANGED <<pc, changedFiles, report, hunkVars, bridgeVars, gitVars, bfsVars, worldVars, fileVars,
                   cliVars,
                   previousReport>>

\* else if (fileDiff.path.endsWith('.ts') && fileDiff.status !== 'DELETED')
AnalyzeSourceFileChange ==
    /\ pc = "analyze"
    /\ fileIdx <= Len(changedFiles)
    /\ LET diff == changedFiles[fileIdx]
       IN  /\ ~isTestFile(diff.path)
           /\ EndsWith(diff.path, <<".ts">>)
           /\ diff.status # "DELETED"
           /\ LET st == SourceFileChange(AnalyzeState, diff, imports, disk)
              IN  /\ fileResults' = st.results
                  /\ processedTestFiles' = st.processed
    /\ fileIdx' = fileIdx + 1
    /\ UNCHANGED <<pc, changedFiles, report, hunkVars, bridgeVars, gitVars, bfsVars, worldVars, fileVars,
                   cliVars,
                   previousReport>>

\* Neither branch: the change is passed over.
AnalyzeOtherChange ==
    /\ pc = "analyze"
    /\ fileIdx <= Len(changedFiles)
    /\ LET diff == changedFiles[fileIdx]
       IN  /\ ~isTestFile(diff.path)
           /\ ~(EndsWith(diff.path, <<".ts">>) /\ diff.status # "DELETED")
    /\ fileIdx' = fileIdx + 1
    /\ UNCHANGED <<pc, changedFiles, fileResults, processedTestFiles, report,
                   hunkVars, bridgeVars, gitVars, bfsVars, worldVars, fileVars, cliVars,
                   previousReport>>

\* The loop has ended: the total is computed and the report returned.
AnalyzeReturn ==
    /\ pc = "analyze"
    /\ fileIdx > Len(changedFiles)
    /\ report' = AnalysisReport(fileResults, TotalTests(fileResults))
    /\ pc' = "analyzed_all"
    /\ UNCHANGED <<changedFiles, fileIdx, fileResults, processedTestFiles,
                   hunkVars, bridgeVars, gitVars, bfsVars, worldVars, fileVars, cliVars,
                   previousReport>>

AnalyzeNext ==
    \/ AnalyzeTestFileChange
    \/ AnalyzeSourceFileChange
    \/ AnalyzeOtherChange
    \/ AnalyzeReturn

SpecAnalyze == AnalyzeInit /\ [][AnalyzeNext]_vars

\* C9: no two entries of fileResults refer to the same test file, for
\* every order of the changes: a test file that has produced a result is
\* not given another one later in the run.
C9_OneResultPerTestFile ==
    \A i \in 1..Len(fileResults) : \A j \in 1..Len(fileResults) :
        i # j => fileResults[i].filePath # fileResults[j].filePath

(***************************************************************************)
(* index.ts -- escapeRegExp and toJsonOutput                               *)
(***************************************************************************)

\* The characters of the class [\\^$.|?*+()\[\]{}] of escapeRegExp.
RegExpSpecials ==
    {"\\", "^", "$", ".", "|", "?", "*", "+", "(", ")", "[", "]", "{", "}"}

\* A mutant of EscapeChar: the vertical bar is left as it is.
EscapeCharButBar(c) ==
    IF c \in RegExpSpecials \ {"|"} THEN <<"\\", c>> ELSE <<c>>

\* The replacement '\\$&' of one character of the string.
EscapeChar(c) == IF c \in RegExpSpecials THEN <<"\\", c>> ELSE <<c>>

\* escapeRegExp: str.replace(/[...]/g, '\\$&')
RECURSIVE escapeRegExp(_)
escapeRegExp(str) ==
    IF str = <<>> THEN <<>>
    ELSE EscapeChar(Head(str)) \o escapeRegExp(Tail(str))

\* Array.prototype.join
RECURSIVE Join(_, _)
Join(parts, separator) ==
    IF parts = <<>> THEN <<>>
    ELSE IF Len(parts) = 1 THEN parts[1]
    ELSE parts[1] \o separator \o Join(Tail(parts), separator)

\* The four accumulators of toJsonOutput before its loop.
JsonStart ==
    [filesSet |-> <<>>, testsSet |-> <<>>, dynamicFilesSet |-> <<>>,
     hasDynamicTests |-> FALSE]

\* A mutant of FileIsFlagged: no file is taken as a whole.
FileIsFlaggedNever(result) == FALSE

\* if (fileResult.hasDynamicTests)
FileIsFlagged(result) == result.hasDynamicTests

\* A mutant of AddDynamicFile: the file is not recorded.
AddDynamicFileNever(dynamicFiles, filePath) == dynamicFiles

\* dynamicFilesSet.add(fileResult.filePath)
AddDynamicFile(dynamicFiles, filePath) == SetAdd(dynamicFiles, filePath)

\* A mutant of AddFlaggedFile: a file taken as a whole is not listed.
AddFlaggedFileNever(files, filePath) == files

\* filesSet.add(fileResult.filePath) for a file with hasDynamicTests
AddFlaggedFile(files, filePath) == SetAdd(files, filePath)

\* The inner loop of toJsonOutput over the tests of a file that is not
\* flagged.
RECURSIVE JsonTests(_, _, _)
JsonTests(acc, filePath, tests) ==
    IF tests = <<>> THEN acc
    ELSE LET test == Head(tests)
             next ==
                 IF test.isDynamic
                 THEN [acc EXCEPT
                         !.hasDynamicTests = TRUE,
                         !.dynamicFilesSet = AddDynamicFile(@, filePath)]
                 ELSE [acc EXCEPT !.testsSet = SetAdd(@, test.testName)]
         IN  JsonTests(next, filePath, Tail(tests))

\* The body of the outer loop of toJsonOutput for one fileResult.
JsonFileResult(acc, result) ==
    IF FileIsFlagged(result)
    THEN [acc EXCEPT
            !.hasDynamicTests = TRUE,
            !.dynamicFilesSet = AddDynamicFile(@, result.filePath),
            !.filesSet = AddFlaggedFile(@, result.filePath)]
    ELSE LET withFile ==
                 IF Len(result.tests) > 0
                 THEN [acc EXCEPT !.filesSet = SetAdd(@, result.filePath)]
                 ELSE acc
         IN  JsonTests(withFile, result.filePath, result.tests)

\* The outer loop of toJsonOutput.
RECURSIVE JsonFileResults(_, _)
JsonFileResults(acc, results) ==
    IF results = <<>> THEN acc
    ELSE JsonFileResults(JsonFileResult(acc, Head(results)), Tail(results))

\* toJsonOutput
toJsonOutput(r) ==
    LET acc == JsonFileResults(JsonStart, r.fileResults)
        testsArray == acc.testsSet
        grepPattern ==
            IF Len(testsArray) > 0
            THEN Join(MapSeq(testsArray, LAMBDA n : escapeRegExp(n)), <<"|">>)
            ELSE <<>>
    IN  [files |-> acc.filesSet, tests |-> testsArray, grep |-> grepPattern,
         filesWithDynamicTests |-> acc.dynamicFilesSet,
         hasDynamicTests |-> acc.hasDynamicTests]

(***************************************************************************)
(* The reports that are handed to toJsonOutput: the reports analyze        *)
(* returns and the fallback report main builds when analyze throws.        *)
(***************************************************************************)

\* The bounds of the reports that are enumerated: the fileResults of a
\* report, the tests of a report over all its fileResults, the test names of
\* a report whose names vary, and the characters of such a name.
MaxResults == 2
MaxTests == 2
MaxNames == 2
MaxNameLen == 2

\* The names a and ${i}: test('a'), test('${i}') and test(`${i}`).
NameA == <<"a">>
NameX == <<"$", "{", "i", "}">>

ImpactTypes == {"DIRECT", "DEPENDENCY", "REMOVED"}

\* The tests of a file result: a and ${i} from string literals, ${i} from a
\* template expression.
ReportTests(path, impact) ==
    { ImpactedTest(NameA, path, impact, FALSE),
      ImpactedTest(NameX, path, impact, FALSE),
      ImpactedTest(NameX, path, impact, TRUE) }

\* The file results with n tests that analyzeTestFile (DIRECT, REMOVED) and
\* analyzeDependentTestFile (DEPENDENCY) return: hasDynamicTests is set
\* exactly when a dynamic test has been pushed.
ResultsWith(n) ==
    UNION { { FileAnalysisResult(pi[1], "MODIFIED", ts, AnyDynamic(ts)) :
                ts \in [1..n -> ReportTests(pi[1], pi[2])] } :
            pi \in {PathASpec, PathBTest} \X ImpactTypes }

\* The lists of at most m file results that hold at most b tests.
RECURSIVE AnalyzedResults(_, _)
AnalyzedResults(m, b) ==
    IF m = 0 THEN {<<>>}
    ELSE {<<>>} \cup
         UNION { { <<f>> \o rest : f \in ResultsWith(n),
                                   rest \in AnalyzedResults(m - 1, b - n) } :
                 n \in 0..b }

\* analyze gives a test file at most two results: one as a dependent of a
\* changed source file, and a later one for its own change.
AnalyzeOrder(results) ==
    \A i \in 1..Len(results) : \A j \in (i + 1)..Len(results) :
        results[i].filePath = results[j].filePath =>
            /\ \A x \in 1..Len(results[i].tests) :
                   results[i].tests[x].impactType = "DEPENDENCY"
            /\ \A y \in 1..Len(results[j].tests) :
                   results[j].tests[y].impactType # "DEPENDENCY"
            /\ \A k \in (j + 1)..Len(results) :
                   results[k].filePath # results[i].filePath

\* The fallback results of main: the changed test files, without tests and
\* flagged.
FallbackResult(f) == FileAnalysisResult(f.path, f.status, <<>>, TRUE)

FallbackResults ==
    LET a == FallbackResult(FileDiff(PathASpec, "MODIFIED", <<1>>))
        b == FallbackResult(FileDiff(PathBTest, "ADDED", <<1>>))
    IN  {<<>>, <<a>>, <<b>>, <<a, b>>, <<b, a>>}

\* The test names that vary: every text of at most MaxNameLen characters
\* over a letter, the vertical bar and the backslash; each special
\* character alone; and ${i}.
NameChars == {"a", "|", "\\"}

Names ==
    UNION {[1..n -> NameChars] : n \in 0..MaxNameLen}
        \cup {<<c>> : c \in RegExpSpecials} \cup {NameX}

\* The results of one changed test file whose tests are string-literal
\* tests of those names.
NamedResults ==
    { <<FileAnalysisResult(PathASpec, "MODIFIED", ts, FALSE)>> :
        ts \in UNION { [1..n -> { ImpactedTest(name, PathASpec, "DIRECT", FALSE) :
                                      name \in Names }] :
                       n \in 1..MaxNames } }

JsonReports ==
    { AnalysisReport(rs, TotalTests(rs)) :
        rs \in {r \in AnalyzedResults(MaxResults, MaxTests) : AnalyzeOrder(r)}
                   \cup NamedResults }
        \cup { AnalysisReport(rs, 0) : rs \in FallbackResults }

JsonInit ==
    /\ pc = "toJsonOutput"
    /\ HunkIdle /\ BridgeIdle /\ GitIdle /\ BfsIdle /\ WorldIdle /\ FileIdle /\ CliIdle
    /\ changedFiles = <<>>
    /\ fileIdx = 0
    /\ fileResults = <<>>
    /\ processedTestFiles = {}
    /\ report \in JsonReports
    /\ previousReport = <<>>

\* const jsonOutput = toJsonOutput(report)
ToJsonOutputCall ==
    /\ pc = "toJsonOutput"
    /\ jsonOutput' = toJsonOutput(report)
    /\ pc' = "serialized"
    /\ UNCHANGED <<options, env, stdout, exitCode, hunkVars, bridgeVars, gitVars, bfsVars, worldVars,
                   fileVars, analyzeVars>>

JsonNext == ToJsonOutputCall

SpecJson == JsonInit /\ [][JsonNext]_vars

(***************************************************************************)
(* The JSON fields, as they are claimed.                                   *)
(***************************************************************************)

\* A list without its repetitions, in order of first occurrence.
RECURSIVE FirstOccurrences(_)
FirstOccurrences(s) ==
    IF s = <<>> THEN <<>>
    ELSE LET front == SubSeq(s, 1, Len(s) - 1)
             last == s[Len(s)]
         IN  IF \E j \in 1..(Len(s) - 1) : s[j] = last
             THEN FirstOccurrences(front)
             ELSE Append(FirstOccurrences(front), last)

\* The names of the non-dynamic tests of a list of file results, in order.
RECURSIVE NonDynamicNames(_)
NonDynamicNames(results) ==
    IF results = <<>> THEN <<>>
    ELSE LET static == SelectSeq(Head(results).tests, LAMBDA x : ~x.isDynamic)
         IN  [i \in 1..Len(static) |-> static[i].testName]
                 \o NonDynamicNames(Tail(results))

\* A name with a backslash before each of \ ^ $ . | ? * + ( ) [ ] { }.
RECURSIVE Backslashed(_)
Backslashed(name) ==
    IF name = <<>> THEN <<>>
    ELSE (IF Head(name) \in {"\\", "^", "$", ".", "|", "?", "*", "+",
                             "(", ")", "[", "]", "{", "}"}
          THEN <<"\\", Head(name)>> ELSE <<Head(name)>>)
             \o Backslashed(Tail(name))

\* A pattern split at its unescaped vertical bars, the escaping backslashes
\* removed: text is the rest of the pattern, piece the alternative being
\* read, pieces the alternatives read so far.
RECURSIVE SplitGrep(_, _, _)
SplitGrep(text, piece, pieces) ==
    IF text = <<>> THEN Append(pieces, piece)
    ELSE IF Head(text) = "\\" /\ Len(text) >= 2
        THEN SplitGrep(Tail(Tail(text)), Append(piece, text[2]), pieces)
    ELSE IF Head(text) = "|"
        THEN SplitGrep(Tail(text), <<>>, Append(pieces, piece))
    ELSE SplitGrep(Tail(text), Append(piece, Head(text)), pieces)

\* The alternatives of a pattern; the empty pattern is read as having none.
GrepAlternatives(grep) ==
    IF grep = <<>> THEN <<>> ELSE SplitGrep(grep, <<>>, <<>>)

\* The name is listed in `tests` or is an alternative of `grep`.
Listed(name) ==
    \/ name \in Range(jsonOutput.tests)
    \/ name \in Range(GrepAlternatives(jsonOutput.grep))

\* The file that owns a dynamic test is in `files` and in
\* `filesWithDynamicTests`.
OwnersListed ==
    \A i \in 1..Len(report.fileResults) :
        LET result == report.fileResults[i]
        IN  AnyDynamic(result.tests) =>
                /\ result.filePath \in Range(jsonOutput.files)
                /\ result.filePath \in Range(jsonOutput.filesWithDynamicTests)

\* C6, as claimed: the name of a dynamic test is never in `tests` nor an
\* alternative of `grep`, whatever its impact type, and the file that owns
\* it is in `files` and in `filesWithDynamicTests`.
C6_DynamicNameNeverListed ==
    pc = "serialized" =>
        /\ OwnersListed
        /\ \A i \in 1..Len(report.fileResults) :
               \A x \in 1..Len(report.fileResults[i].tests) :
                   LET test == report.fileResults[i].tests[x]
                   IN  test.isDynamic => ~Listed(test.testName)

\* C6, amended: the file that owns a dynamic test is in `files` and in
\* `filesWithDynamicTests`, and the name of a dynamic test is in `tests` or
\* an alternative of `grep` only when a non-dynamic test of a file result
\* without dynamic tests has that very name.
C6_DynamicTestNeverListed ==
    pc = "serialized" =>
        /\ OwnersListed
        /\ \A i \in 1..Len(report.fileResults) :
               \A x \in 1..Len(report.fileResults[i].tests) :
                   LET test == report.fileResults[i].tests[x]
                   IN  test.isDynamic /\ Listed(test.testName) =>
                           \E j \in 1..Len(report.fileResults) :
                               LET other == report.fileResults[j]
                               IN  /\ ~other.hasDynamicTests
                                   /\ \E y \in 1..Len(other.tests) :
                                          /\ ~other.tests[y].isDynamic
                                          /\ other.tests[y].testName = test.testName

\* A dependent file with the dynamic test ${i} and a changed file with the
\* test a have been serialised: a is listed, ${i} is not, and the first
\* file is in both lists of files.
C6_Witness ==
    /\ pc = "serialized"
    /\ Len(report.fileResults) = 2
    /\ report.fileResults[1].tests =
           <<ImpactedTest(NameX, PathASpec, "DEPENDENCY", TRUE)>>
    /\ report.fileResults[2].tests =
           <<ImpactedTest(NameA, PathBTest, "DIRECT", FALSE)>>
    /\ jsonOutput.tests = <<NameA>>
    /\ jsonOutput.grep = <<"a">>
    /\ jsonOutput.files = <<PathASpec, PathBTest>>
    /\ jsonOutput.filesWithDynamicTests = <<PathASpec>>

\* C7, as claimed: `tests` is exactly the distinct names of all non-dynamic
\* tests over all fileResults, each once, in order of first occurrence,
\* those of a file that also holds a dynamic test included.
C7_TestsAllNonDynamic ==
    pc = "serialized" =>
        jsonOutput.tests = FirstOccurrences(NonDynamicNames(report.fileResults))

\* C7, amended: `tests` is exactly the distinct names of the non-dynamic
\* tests of the fileResults whose hasDynamicTests is false, each once, in
\* order of first occurrence; the tests of a file result that holds a
\* dynamic test are all left out.
C7_TestsOfUnflaggedFiles ==
    pc = "serialized" =>
        jsonOutput.tests =
            FirstOccurrences(NonDynamicNames(
                SelectSeq(report.fileResults, LAMBDA r : ~r.hasDynamicTests)))

\* A file result with the non-dynamic tests ${i} and a has been
\* serialised: both names are listed, in that order.
C7_Witness ==
    /\ pc = "serialized"
    /\ Len(report.fileResults) = 1
    /\ Len(report.fileResults[1].tests) = 2
    /\ report.fileResults[1].tests[1].testName = NameX
    /\ report.fileResults[1].tests[2].testName = NameA
    /\ ~AnyDynamic(report.fileResults[1].tests)
    /\ jsonOutput.tests = <<NameX, NameA>>

\* C8, as claimed: `grep` is the entries of `tests`, each with its special
\* characters backslashed, joined with a vertical bar; it is empty exactly
\* when `tests` is empty; split at its unescaped bars and unescaped, it
\* gives `tests` back.
C8_GrepEmptyIffNoTests ==
    pc = "serialized" =>
        /\ jsonOutput.grep =
               Join([i \in 1..Len(jsonOutput.tests) |->
                        Backslashed(jsonOutput.tests[i])], <<"|">>)
        /\ jsonOutput.grep = <<>> <=> jsonOutput.tests = <<>>
        /\ GrepAlternatives(jsonOutput.grep) = jsonOutput.tests

\* C8, amended: `grep` is the entries of `tests`, each with its special
\* characters backslashed, joined with a vertical bar; it is empty exactly
\* when `tests` is empty or holds the empty name alone; a `grep` that is
\* not empty, split at its unescaped bars and unescaped, gives `tests` back.
C8_GrepOfTests ==
    pc = "serialized" =>
        /\ jsonOutput.grep =
               Join([i \in 1..Len(jsonOutput.tests) |->
                        Backslashed(jsonOutput.tests[i])], <<"|">>)
        /\ jsonOutput.grep = <<>> <=> jsonOutput.tests \in {<<>>, << <<>> >>}
        /\ jsonOutput.grep # <<>> =>
               SplitGrep(jsonOutput.grep, <<>>, <<>>) = jsonOutput.tests

\* The names a\ and |a have been serialised as a\\|\|a.
C8_Witness ==
    /\ pc = "serialized"
    /\ jsonOutput.tests = << <<"a", "\\">>, <<"|", "a">> >>
    /\ jsonOutput.grep = <<"a", "\\", "\\", "|", "\\", "|", "a">>

(***************************************************************************)
(* index.ts -- main                                                        *)
(*                                                                         *)
(* stdout is the list of the console.log calls that reached standard       *)
(* output: a JSON line carries the object that was stringified, a text     *)
(* line what the logger or printReport wrote. What logger.error and        *)
(* console.error write goes to standard error and is left out. env is      *)
(* what the world answers: the file system (pathExists, isDirectory), git  *)
(* (isRepo, validSha, shallow, parentAccessible, showWorks, changes,       *)
(* parentSha), ts-morph (projectLoads, analyzerLoads) and analyze          *)
(* (analyzeThrows, analysis).                                              *)
(***************************************************************************)
TextLine(text) == [kind |-> "text", text |-> text]

JsonLine(object) == [kind |-> "json", object |-> object]

\* JSON.stringify({ files: [], tests: [], grep: "" })
DegenerateJson == [files |-> <<>>, tests |-> <<>>, grep |-> <<>>]

\* A mutant of LoggerLog: the logger is not silenced in JSON mode.
LoggerLogAlways(out, text) == Append(out, TextLine(text))

\* logger.log: if (!options.json) console.log(...args)
LoggerLog(out, text) ==
    IF ~options.json THEN Append(out, TextLine(text)) ELSE out

\* console.log(JSON.stringify(object))
ConsoleLogJson(out, object) == Append(out, JsonLine(object))

\* if (options.json) { console.log(JSON.stringify({...})); process.exit(..) }
\* logger.error(...); process.exit(..): what standard output holds then.
DegenerateOutput(out) ==
    IF options.json THEN ConsoleLogJson(out, DegenerateJson) ELSE out

\* GitService.getChangedFiles: the validations, then the two git show.
getChangedFiles(world) ==
    IF ~world.isRepo THEN [ok |-> FALSE, files |-> <<>>]
    ELSE IF ~world.validSha THEN [ok |-> FALSE, files |-> <<>>]
    ELSE IF world.shallow /\ ~world.parentAccessible
        THEN [ok |-> FALSE, files |-> <<>>]
    ELSE IF ~world.showWorks THEN [ok |-> FALSE, files |-> <<>>]
    ELSE [ok |-> TRUE, files |-> world.changes]

\* --all: every source file of the project outside node_modules, as a
\* FileDiff that is MODIFIED with no changed line.
AllSourceFiles ==
    MapSeq(SelectSeq(ProjectFiles, LAMBDA f : ~Includes(f, <<"node_modules">>)),
           LAMBDA f : FileDiff(RelativePath(f), "MODIFIED", <<>>))

\* The fallback report of main when analyze throws.
FallbackReport(changed) ==
    AnalysisReport(
        MapSeq(SelectSeq(changed, LAMBDA f : EndsWith(f.path, <<".spec", ".ts">>)
                                              \/ EndsWith(f.path, <<".test", ".ts">>)),
               FallbackResult),
        0)

\* The changes of a commit and the reports of analyze that are enumerated.
MainChanges ==
    { <<>>,
      <<FileDiff(PathH, "MODIFIED", <<1>>), FileDiff(PathASpec, "MODIFIED", <<1>>)>>,
      <<FileDiff(PathK, "MODIFIED", <<1>>)>> }

MainReports ==
    { AnalysisReport(<<>>, 0),
      AnalysisReport(
          <<FileAnalysisResult(PathASpec, "MODIFIED",
                <<ImpactedTest(NameA, PathASpec, "DIRECT", FALSE)>>, FALSE)>>, 1) }

Options == [json : BOOLEAN, all : BOOLEAN, commit : BOOLEAN]

Worlds ==
    [pathExists : BOOLEAN, isDirectory : {"yes", "no", "throws"},
     isRepo : BOOLEAN, validSha : BOOLEAN, shallow : BOOLEAN,
     parentAccessible : BOOLEAN, showWorks : BOOLEAN, changes : MainChanges,
     parentSha : {"sha", "null", "throws"}, projectLoads : BOOLEAN,
     analyzerLoads : BOOLEAN, analyzeThrows : BOOLEAN, analysis : MainReports]

Init ==
    /\ pc = "main"
    /\ HunkIdle /\ BridgeIdle /\ GitIdle /\ BfsIdle /\ WorldIdle /\ FileIdle /\ AnalyzeIdle
    /\ options \in Options
    /\ env \in Worlds
    /\ jsonOutput = <<>>
    /\ stdout = <<>>
    /\ exitCode = <<>>

\* process.exit(status) after standard output has become out.
Exit(out, status) ==
    /\ stdout' = out
    /\ exitCode' = <<status>>
    /\ pc' = "exited"

\* The catch of main: the degenerate object in JSON mode, and exit(1).
Caught(out) == Exit(DegenerateOutput(out), 1)

\* if (!options.all && !options.commit)
MainValidateOptions ==
    /\ pc = "main"
    /\ IF ~options.all /\ ~options.commit
       THEN Exit(DegenerateOutput(stdout), 1)
       ELSE pc' = "validate_path" /\ UNCHANGED <<stdout, exitCode>>
    /\ UNCHANGED <<jsonOutput, options, env, hunkVars, bridgeVars, gitVars, bfsVars, worldVars,
                   fileVars, analyzeVars>>

\* fs.existsSync(repoPath), fs.statSync(repoPath).isDirectory(), and the
\* three lines the logger is given next.
MainValidatePath ==
    /\ pc = "validate_path"
    /\ IF ~env.pathExists THEN Exit(DegenerateOutput(stdout), 1)
       ELSE IF env.isDirectory = "throws" THEN Caught(stdout)
       ELSE IF env.isDirectory = "no" THEN Exit(DegenerateOutput(stdout), 1)
       ELSE /\ pc' = "collect"
            /\ stdout' = LoggerLog(LoggerLog(LoggerLog(stdout,
                             "Analyzing changes..."), "Repository"), "Commit")
            /\ UNCHANGED exitCode
    /\ UNCHANGED <<jsonOutput, options, env, hunkVars, bridgeVars, gitVars, bfsVars, worldVars,
                   fileVars, analyzeVars>>

\* if (options.all): the whole project is taken as changed.
MainScanAll ==
    /\ pc = "collect"
    /\ options.all
    /\ LET out == LoggerLog(stdout, "Scanning entire repository (Mode: ALL)...")
       IN  IF ~env.projectLoads
           THEN Caught(out) /\ UNCHANGED changedFiles
           ELSE /\ changedFiles' = AllSourceFiles
                /\ stdout' = LoggerLog(LoggerLog(out, "Found source file(s)"), "")
                /\ pc' = "parent"
                /\ UNCHANGED exitCode
    /\ UNCHANGED <<jsonOutput, options, env, fileIdx, fileResults,
                   processedTestFiles, report, hunkVars, bridgeVars, gitVars, bfsVars, worldVars,
                   fileVars,
                   previousReport>>

\* else: gitService.getChangedFiles(commitSha), its catch, and the early
\* exit when nothing has changed.
MainGitChanges ==
    /\ pc = "collect"
    /\ ~options.all
    /\ LET changed == getChangedFiles(env)
       IN  IF ~changed.ok
           THEN Exit(DegenerateOutput(stdout), 1) /\ UNCHANGED changedFiles
           ELSE IF Len(changed.files) = 0
           THEN /\ IF options.json
                   THEN Exit(ConsoleLogJson(stdout, DegenerateJson), 0)
                   ELSE Exit(LoggerLog(LoggerLog(LoggerLog(LoggerLog(LoggerLog(
                                LoggerLog(LoggerLog(stdout, ""),
                                "No file changes found between the commit and HEAD."),
                                "This could mean:"),
                                "The commit SHA is the same as HEAD"),
                                "All changes have been reverted"), ""), ""), 0)
                /\ changedFiles' = changed.files
           ELSE /\ changedFiles' = changed.files
                /\ stdout' = LoggerLog(LoggerLog(stdout, "Found changed file(s)."), "")
                /\ pc' = "parent"
                /\ UNCHANGED exitCode
    /\ UNCHANGED <<jsonOutput, options, env, fileIdx, fileResults,
                   processedTestFiles, report, hunkVars, bridgeVars, gitVars, bfsVars, worldVars,
                   fileVars,
                   previousReport>>

\* The parent revision for the detection of removed tests.
MainParentCommit ==
    /\ pc = "parent"
    /\ IF ~options.all /\ options.commit
       THEN /\ gitService' = TRUE
            /\ prevCommitSha' = (env.parentSha = "sha")
            /\ stdout' =
                   IF env.parentSha = "sha" THEN LoggerLog(stdout, "Parent commit")
                   ELSE IF env.parentSha = "throws"
                       THEN LoggerLog(stdout, "No parent commit found")
                   ELSE stdout
       ELSE UNCHANGED <<gitService, prevCommitSha, stdout>>
    /\ pc' = "analyze"
    /\ UNCHANGED <<jsonOutput, options, env, exitCode, imports, disk, parentTree,
                   hunkVars, bridgeVars, gitVars, bfsVars, fileVars, analyzeVars>>

\* new Analyzer(repoPath) and analyzer.analyze(...) with its fallback.
MainAnalyze ==
    /\ pc = "analyze"
    /\ IF ~env.analyzerLoads
       THEN Caught(stdout) /\ UNCHANGED report
       ELSE /\ pc' = "output"
            /\ UNCHANGED exitCode
            /\ IF env.analyzeThrows
               THEN /\ report' = FallbackReport(changedFiles)
                    /\ stdout' = LoggerLog(LoggerLog(stdout, "Analysis error"),
                                           "Falling back to File Mode")
               ELSE /\ report' = env.analysis
                    /\ UNCHANGED stdout
    /\ UNCHANGED <<jsonOutput, options, env, changedFiles, fileIdx, fileResults,
                   processedTestFiles, hunkVars, bridgeVars, gitVars, bfsVars, worldVars, fileVars,
                   previousReport>>

\* The output of the report, and the end of main.
MainOutput ==
    /\ pc = "output"
    /\ IF options.json
       THEN /\ jsonOutput' = toJsonOutput(report)
            /\ Exit(ConsoleLogJson(stdout, toJsonOutput(report)), 0)
       ELSE /\ Exit(Append(stdout, TextLine("printReport")), 0)
            /\ UNCHANGED jsonOutput
    /\ UNCHANGED <<options, env, hunkVars, bridgeVars, gitVars, bfsVars, worldVars, fileVars,
                   analyzeVars>>

Next ==
    \/ MainValidateOptions
    \/ MainValidatePath
    \/ MainScanAll
    \/ MainGitChanges
    \/ MainParentCommit
    \/ MainAnalyze
    \/ MainOutput

Spec == Init /\ [][Next]_vars

\* The failures of the claim, read off the options and the world: no mode,
\* a path that is missing, not a directory or cannot be inspected, a project
\* or a git query that fails (no repository, unknown revision, shallow
\* history without the parent, git show failing), an analyzer that cannot
\* be built once there are changes to analyze.
UnrecoverableFailure ==
    \/ ~options.all /\ ~options.commit
    \/ ~env.pathExists
    \/ env.isDirectory # "yes"
    \/ options.all /\ ~env.projectLoads
    \/ ~options.all /\ ~env.isRepo
    \/ ~options.all /\ ~env.validSha
    \/ ~options.all /\ env.shallow /\ ~env.parentAccessible
    \/ ~options.all /\ ~env.showWorks
    \/ (options.all \/ env.changes # <<>>) /\ ~env.analyzerLoads

\* C10: in JSON mode, on every unrecoverable failure the program writes
\* exactly one JSON object to standard output, equal to
\* {files: [], tests: [], grep: ""}, writes nothing else to it, and exits
\* with a non-zero status.
C10_DegenerateErrorOutput ==
    pc = "exited" /\ options.json /\ UnrecoverableFailure =>
        /\ stdout = <<JsonLine(DegenerateJson)>>
        /\ exitCode # <<0>>

\* In JSON mode, with a commit given, the history is shallow and the parent
\* of the commit is out of reach: the degenerate object, and exit status 1.
C10_Witness ==
    /\ pc = "exited"
    /\ options = [json |-> TRUE, all |-> FALSE, commit |-> TRUE]
    /\ env.pathExists /\ env.isDirectory = "yes"
    /\ env.isRepo /\ env.validSha
    /\ env.shallow /\ ~env.parentAccessible
    /\ stdout = <<JsonLine(DegenerateJson)>>
    /\ exitCode = <<1>>

\* The changed files that the fallback of main keeps.
ChangedTestFiles ==
    SelectSeq(changedFiles, LAMBDA f : \/ EndsWith(f.path, <<".spec", ".ts">>)
                                       \/ EndsWith(f.path, <<".test", ".ts">>))

\* C17: when analyze throws in a run that is otherwise successful, the
\* report holds one FileAnalysisResult with hasDynamicTests = true for each
\* changed file named .spec.ts or .test.ts, in order, and no other; the
\* JSON output then lists each of these files in files and in
\* filesWithDynamicTests, has hasDynamicTests = true and an empty grep, and
\* does not report zero files.
C17_CoarseFallback ==
    /\ (pc = "output" /\ env.analyzeThrows) =>
           /\ Len(report.fileResults) = Len(ChangedTestFiles)
           /\ \A i \in 1..Len(ChangedTestFiles) :
                  /\ report.fileResults[i].filePath = ChangedTestFiles[i].path
                  /\ report.fileResults[i].hasDynamicTests = TRUE
    /\ (pc = "exited" /\ exitCode = <<0>> /\ options.json /\ env.analyzeThrows
            /\ Len(changedFiles) > 0) =>
           /\ stdout = <<JsonLine(jsonOutput)>>
           /\ \A i \in 1..Len(ChangedTestFiles) :
                  /\ ChangedTestFiles[i].path \in Range(jsonOutput.files)
                  /\ ChangedTestFiles[i].path
                         \in Range(jsonOutput.filesWithDynamicTests)
           /\ jsonOutput.hasDynamicTests = TRUE
           /\ jsonOutput.grep = <<>>
           /\ jsonOutput.files # <<>>

(***************************************************************************)
(* analyzer.ts -- Analyzer.analyze as a function of its inputs             *)
(***************************************************************************)

\* The body of the loop of analyze for one FileDiff.
AnalyzeChange(st, diff, graph, tree, hasPrev, hasGit, parents) ==
    IF isTestFile(diff.path)
    THEN TestFileChange(st, diff, tree[ResolvePath(diff.path)], hasPrev, hasGit,
                        parents[diff.path])
    ELSE IF EndsWith(diff.path, <<".ts">>) /\ diff.status # "DELETED"
    THEN SourceFileChange(st, diff, graph, tree)
    ELSE st

\* The loop of analyze over changedFiles.
RECURSIVE AnalyzeChanges(_, _, _, _, _, _, _)
AnalyzeChanges(st, changes, graph, tree, hasPrev, hasGit, parents) ==
    IF changes = <<>> THEN st
    ELSE AnalyzeChanges(
             AnalyzeChange(st, Head(changes), graph, tree, hasPrev, hasGit, parents),
             Tail(changes), graph, tree, hasPrev, hasGit, parents)

\* analyze
analyze(changes, graph, tree, hasPrev, hasGit, parents) ==
    LET st == AnalyzeChanges([results |-> <<>>, processed |-> {}], changes,
                             graph, tree, hasPrev, hasGit, parents)
    IN  AnalysisReport(st.results, TotalTests(st.results))

\* The results of a report for the files other than f.
ResultsBut(results, f) == SelectSeq(results, LAMBDA r : r.filePath # f)

\* The contents and the parent versions the test file a.spec.ts may have
\* when its extraction does not fail.
ASpecContents == {d[FileASpec] : d \in AnalyzeDisks} \ {Unreadable}

ASpecParents ==
    {p[PathASpec] : p \in AnalyzeParents}
        \ {ParentThrows, ParentUnparsed}

\* C11: a run of analyze in which the extraction of the declarations of
\* a.spec.ts throws (the file as a changed or dependent test file, or its
\* parent version) goes through every change and returns the report of
\* analyze; the failing file contributes no test (the failing parent
\* version no REMOVED test); and the results of every other file are those
\* of the same run with a content, or a parent version, whose extraction
\* succeeds.
C11_FailureIsPerFile ==
    /\ pc = "analyzed_all" =>
           /\ fileIdx = Len(changedFiles) + 1
           /\ report = analyze(changedFiles, imports, disk, prevCommitSha,
                               gitService, parentTree)
    /\ pc = "analyzed_all" /\ disk[FileASpec] = Unreadable =>
           /\ \A i \in 1..Len(report.fileResults) :
                  report.fileResults[i].filePath = PathASpec =>
                      \A x \in 1..Len(report.fileResults[i].tests) :
                          report.fileResults[i].tests[x].impactType = "REMOVED"
                             /\ report.fileResults[i].status = "DELETED"
           /\ \A c \in ASpecContents :
                  ResultsBut(report.fileResults, PathASpec) =
                      ResultsBut(analyze(changedFiles, imports,
                                         [disk EXCEPT ![FileASpec] = c],
                                         prevCommitSha, gitService,
                                         parentTree).fileResults, PathASpec)
    /\ pc = "analyzed_all" /\ parentTree[PathASpec] \in {ParentThrows, ParentUnparsed} =>
           /\ \A i \in 1..Len(report.fileResults) :
                  report.fileResults[i].filePath = PathASpec =>
                      \A x \in 1..Len(report.fileResults[i].tests) :
                          report.fileResults[i].tests[x].impactType # "REMOVED"
           /\ \A p \in ASpecParents :
                  ResultsBut(report.fileResults, PathASpec) =
                      ResultsBut(analyze(changedFiles, imports, disk,
                                         prevCommitSha, gitService,
                                         [parentTree EXCEPT ![PathASpec] = p]
                                        ).fileResults, PathASpec)

\* a.spec.ts and k.ts have changed, b.test.ts depends on k.ts, a.spec.ts
\* cannot be read: the report holds the tests of b.test.ts and no result
\* for a.spec.ts.
C11_Witness ==
    /\ pc = "analyzed_all"
    /\ disk[FileASpec] = Unreadable
    /\ Len(changedFiles) = 2
    /\ changedFiles[1].path = PathASpec /\ changedFiles[1].status = "MODIFIED"
    /\ changedFiles[2].path = PathK
    /\ Len(report.fileResults) = 1
    /\ report.fileResults[1].filePath = PathBTest
    /\ report.totalTestsSelected > 0

\* ---------------------------------------------------------------------
\* Commits that delete the test file a.spec.ts.  The file is gone from the
\* working tree, so it cannot be read and the project holds no import of
\* it; its content at the parent revision is any of ParentResults.  The
\* parent revision and the git service are both given, or the commit has
\* no parent, or (as in the scan of the whole project) neither is given.
DeletedImports ==
    { <<FileBTest, <<".", "/", "k">>>>, <<FileH, <<".", "/", "k">>>> }

DeletedChangeLists ==
    {l \in ChangeLists(MaxChanges) :
        /\ DistinctPaths(l)
        /\ \E i \in 1..Len(l) : l[i] = FileDiff(PathASpec, "DELETED", <<>>)}

DeletedInit ==
    /\ pc = "analyze"
    /\ HunkIdle /\ BridgeIdle /\ GitIdle /\ BfsIdle /\ FileIdle /\ CliIdle
    /\ \E E \in SUBSET DeletedImports : imports = GraphOf(E)
    /\ disk = (FileASpec :> Unreadable)
                @@ (FileBTest :> Readable(<<TestC(<<1, 2>>), TestA(<<2, 2>>)>>))
    /\ \E a \in ParentResults :
           parentTree = (PathASpec :> a)
                            @@ (PathBTest :> ParentText(<<TestC(<<1, 1>>)>>))
    /\ \/ prevCommitSha = TRUE /\ gitService = TRUE
       \/ prevCommitSha = FALSE /\ gitService \in BOOLEAN
    /\ changedFiles \in DeletedChangeLists
    /\ fileIdx = 1
    /\ fileResults = <<>>
    /\ processedTestFiles = {}
    /\ report = <<>>
    /\ previousReport = <<>>

SpecDeleted == DeletedInit /\ [][AnalyzeNext]_vars

\* The declarations of a.spec.ts at the parent revision, when the parent
\* revision, the git service and a content that parses are all there.
ParentDeclarations ==
    IF prevCommitSha /\ gitService /\ parentTree[PathASpec].kind = "text"
           /\ parentTree[PathASpec].parses
    THEN extractTestBlocks(parentTree[PathASpec].calls)
    ELSE <<>>

\* C12: a deleted test file has exactly one entry in fileResults, with
\* status DELETED; its tests are the declarations of its content at the
\* parent revision, each one reported as REMOVED, in order, and nothing
\* else; with no parent revision, no git service or no parent content the
\* entry is there all the same, with zero tests.
C12_DeletedFileReported ==
    pc = "analyzed_all" =>
        LET entries == SelectSeq(report.fileResults,
                                 LAMBDA r : r.filePath = PathASpec)
        IN  /\ Len(entries) = 1
            /\ entries[1].status = "DELETED"
            /\ Len(entries[1].tests) = Len(ParentDeclarations)
            /\ \A i \in 1..Len(ParentDeclarations) :
                   entries[1].tests[i] =
                       ImpactedTest(ParentDeclarations[i].name, PathASpec,
                                    "REMOVED", ParentDeclarations[i].isDynamic)
            /\ (~prevCommitSha \/ ~gitService
                    \/ parentTree[PathASpec].kind # "text") =>
                   entries[1].tests = <<>>

\* The commit has no parent and deletes a.spec.ts, whose entry is reported
\* with no test, before the entry of b.test.ts, a dependent of the changed
\* helper k.
C12_Witness ==
    /\ pc = "analyzed_all"
    /\ ~prevCommitSha
    /\ changedFiles = <<FileDiff(PathASpec, "DELETED", <<>>),
                        FileDiff(PathK, "MODIFIED", <<1>>)>>
    /\ Len(report.fileResults) = 2
    /\ report.fileResults[1] =
           FileAnalysisResult(PathASpec, "DELETED", <<>>, FALSE)
    /\ report.fileResults[2].filePath = PathBTest

(***************************************************************************)
(* git.ts -- GitService.getChangedFiles                                    *)
(*                                                                         *)
(* A line of git output is a sequence of pieces: the fixed words git       *)
(* prints, the pieces of a path, and single characters where the source    *)
(* looks at them (a status letter, a tab, the text of a hunk header).      *)
(***************************************************************************)

\* A hunk of a zero-context diff; git omits a count of one.
Hunk(oldStart, oldCount, newStart, newCount) ==
    [oldStart |-> oldStart, oldCount |-> oldCount,
     newStart |-> newStart, newCount |-> newCount]

HunkCount(n) == IF n = 1 THEN <<>> ELSE <<n>>

HunkLine(h) ==
    HunkHeaderText(h.oldStart, HunkCount(h.oldCount),
                   h.newStart, HunkCount(h.newCount), <<>>)

\* What a commit does to a file: the status letter of --name-status, the
\* path before and after, and the hunks of its diff.
CommitFile(letter, oldPath, path, hunks) ==
    [letter |-> letter, oldPath |-> oldPath, path |-> path, hunks |-> hunks]

\* The line of git show --name-status for a file.
NameStatusLine(f) ==
    IF f.letter = "R"
    THEN <<"R">> \o (IF f.hunks = <<>> THEN <<"1", "0", "0">> ELSE <<"0", "9", "0">>)
             \o <<"\t">> \o f.oldPath \o <<"\t">> \o f.path
    ELSE <<f.letter, "\t">> \o f.path

\* The lines of git show -U0 for a file: the header, the extended header,
\* and each hunk header followed by the lines it removes and adds.
RECURSIVE HunkLines(_)
HunkLines(hunks) ==
    IF hunks = <<>> THEN <<>>
    ELSE LET h == Head(hunks)
         IN  <<HunkLine(h)>>
                 \o [i \in 1..h.oldCount |-> <<"-", "old text">>]
                 \o [i \in 1..h.newCount |-> <<"+", "new text">>]
                 \o HunkLines(Tail(hunks))

FileDiffLines(f) ==
    << <<"diff --git a/">> \o f.oldPath \o <<" b/">> \o f.path >>
        \o (IF f.letter = "R"
            THEN << <<"rename from ">> \o f.oldPath, <<"rename to ">> \o f.path >>
            ELSE <<>>)
        \o (IF f.hunks = <<>> THEN <<>>
            ELSE << <<"index ", "0000000..1111111">>,
                    <<"-", "-", "-", " ", "a/">> \o f.oldPath,
                    <<"+", "+", "+", " ", "b/">> \o f.path >>)
        \o HunkLines(f.hunks)

RECURSIVE CommitDiffLines(_)
CommitDiffLines(files) ==
    IF files = <<>> THEN <<>>
    ELSE FileDiffLines(Head(files)) \o CommitDiffLines(Tail(files))

\* The two outputs split on the newline; each ends with a newline, so the
\* last line of the split is empty.
RawDiffLines(files) == CommitDiffLines(files) \o << <<>> >>

StatusOutputLines(files) == MapSeq(files, NameStatusLine) \o << <<>> >>

\* line.startsWith of the prefixes the status loop skips.
StartsWith(line, prefix) ==
    Len(line) >= Len(prefix) /\ SubSeq(line, 1, Len(prefix)) = prefix

IsSkippedStatusLine(line) ==
    \/ StartsWith(line, <<"diff --git a/">>)
    \/ StartsWith(line, <<"@", "@">>)
    \/ StartsWith(line, <<"index ">>)
    \/ StartsWith(line, <<"+">>)
    \/ StartsWith(line, <<"-">>)
    \/ StartsWith(line, <<"\\">>)

\* line.split('\t')
RECURSIVE SplitTabs(_, _)
SplitTabs(line, part) ==
    IF line = <<>> THEN <<part>>
    ELSE IF Head(line) = "\t" THEN <<part>> \o SplitTabs(Tail(line), <<>>)
    ELSE SplitTabs(Tail(line), Append(part, Head(line)))

\* switch (statusChar)
StatusOfChar(statusChar) ==
    CASE statusChar = "A" -> "ADDED"
      [] statusChar = "D" -> "DELETED"
      [] statusChar = "R" -> "RENAMED"
      [] OTHER -> "MODIFIED"

\* The loop over statusLines: fileStatuses as a function of the paths set.
RECURSIVE ParseStatusLines(_, _)
ParseStatusLines(statusLines, statuses) ==
    IF statusLines = <<>> THEN statuses
    ELSE LET line == Head(statusLines)
             parts == SplitTabs(line, <<>>)
             filePath == IF Len(parts) >= 3 THEN parts[3] ELSE parts[2]
         IN  IF IsSkippedStatusLine(line) \/ Len(parts) < 2 \/ filePath = <<>>
             THEN ParseStatusLines(Tail(statusLines), statuses)
             ELSE ParseStatusLines(
                      Tail(statusLines),
                      [q \in DOMAIN statuses \cup {filePath} |->
                          IF q = filePath THEN StatusOfChar(Head(parts[1]))
                          ELSE statuses[q]])

ParseFileStatuses(statusOutput) ==
    ParseStatusLines(SelectSeq(statusOutput, LAMBDA line : line # <<>>), <<>>)

\* fileStatuses.get(currentFile) ?? 'MODIFIED'
StatusOrModified(statuses, path) ==
    IF path \in DOMAIN statuses THEN statuses[path] ELSE "MODIFIED"

\* line.match(/^diff --git a\/.+ b\/(.+)$/): the text of the capture group,
\* <<>> when the line does not match; the first .+ is greedy.
FileMatch(line) ==
    LET seps == {i \in 3..(Len(line) - 1) : line[i] = " b/"}
    IN  IF Len(line) >= 4 /\ Head(line) = "diff --git a/" /\ seps # {}
        THEN LET last == CHOOSE i \in seps : \A j \in seps : j <= i
             IN  SubSeq(line, last + 1, Len(line))
        ELSE <<>>

\* The paths and the commits that are enumerated; the old path of a rename
\* is written with the path's own pieces after "old/".
OldPathOf(path) == <<"old", "/">> \o path

CommitFilesOf(path) ==
    {CommitFile("A", path, path,
                IF n = 0 THEN <<>> ELSE <<Hunk(0, 0, 1, n)>>) : n \in 0..MaxCount}
    \cup {CommitFile("D", path, path,
                     IF n = 0 THEN <<>> ELSE <<Hunk(1, n, 0, 0)>>) : n \in 0..MaxCount}
    \cup {CommitFile("R", OldPathOf(path), path, h) :
              h \in {<<>>, <<Hunk(1, 1, 1, 1)>>}}
    \cup {CommitFile("M", path, path, h) :
              h \in {<<Hunk(1, 1, 1, 1)>>, <<Hunk(2, 0, 3, 2)>>,
                     <<Hunk(2, 2, 1, 0)>>,
                     <<Hunk(1, 1, 1, 1), Hunk(3, 0, 4, 1)>>}}

GitPaths == {PathASpec, PathH}

Commits ==
    {<<>>} \cup {<<f>> : f \in UNION {CommitFilesOf(q) : q \in GitPaths}}
        \cup {<<f, g>> : f \in CommitFilesOf(PathASpec), g \in CommitFilesOf(PathH)}
        \cup {<<g, f>> : f \in CommitFilesOf(PathASpec), g \in CommitFilesOf(PathH)}

\* What git answers: whether the path is a repository, whether the sha
\* resolves, what rev-parse --is-shallow-repository says (an older git
\* fails), whether the parent of the commit is there, is missing because
\* the commit is a root commit, or is cut off by the shallow history, and
\* whether git show works.  A commit whose parent is not there is shown as
\* adding all its files; a history that is cut is never reported complete.
Repositories ==
    {r \in [isRepo : BOOLEAN, validSha : BOOLEAN,
            isShallow : {"true", "false", "fails"},
            parent : {"reachable", "root", "truncated"},
            showWorks : BOOLEAN, files : Commits] :
        /\ r.parent # "reachable" =>
               \A i \in 1..Len(r.files) : r.files[i].letter = "A"
        /\ r.parent = "truncated" => r.isShallow # "false"}

GitInit ==
    /\ pc = "getChangedFiles"
    /\ HunkIdle /\ BridgeIdle /\ BfsIdle /\ WorldIdle /\ FileIdle /\ AnalyzeIdle /\ CliIdle
    /\ repository \in Repositories
    /\ fileStatuses = <<>>
    /\ diffLines = <<>>
    /\ diffIdx = 0
    /\ diffCurrentFile = <<>>
    /\ currentChangedLines = <<>>
    /\ fileDiffs = <<>>
    /\ thrown = <<>>

\* throw: the error leaves getChangedFiles.
Throw(error) ==
    /\ thrown' = <<error>>
    /\ pc' = "thrown"

\* await this.validateRepository()
GitValidateRepository ==
    /\ pc = "getChangedFiles"
    /\ IF ~repository.isRepo
       THEN Throw("not a valid Git repository")
       ELSE pc' = "validateCommitSha" /\ UNCHANGED thrown
    /\ UNCHANGED <<repository, fileStatuses, diffLines, diffIdx, diffCurrentFile,
                   currentChangedLines, fileDiffs, hunkVars, bridgeVars, bfsVars, worldVars,
                   fileVars, analyzeVars, cliVars>>

\* await this.validateCommitSha(commitSha)
GitValidateCommitSha ==
    /\ pc = "validateCommitSha"
    /\ IF ~repository.validSha
       THEN Throw("Invalid commit SHA")
       ELSE pc' = "validateParentAccess" /\ UNCHANGED thrown
    /\ UNCHANGED <<repository, fileStatuses, diffLines, diffIdx, diffCurrentFile,
                   currentChangedLines, fileDiffs, hunkVars, bridgeVars, bfsVars, worldVars,
                   fileVars, analyzeVars, cliVars>>

\* A mutant of checkIsShallowRepository: a failing command is read as
\* shallow.
checkIsShallowRepositoryUnlessFalse(repo) == repo.isShallow # "false"

\* checkIsShallowRepository: a failing command is read as not shallow.
checkIsShallowRepository(repo) == repo.isShallow = "true"

\* git rev-parse sha^ resolves only when the parent is in the history.
RevParseParent(repo) == repo.parent = "reachable"

\* await this.validateParentAccess(commitSha)
GitValidateParentAccess ==
    /\ pc = "validateParentAccess"
    /\ IF checkIsShallowRepository(repository) /\ ~RevParseParent(repository)
       THEN Throw("ShallowCloneError")
       ELSE pc' = "show" /\ UNCHANGED thrown
    /\ UNCHANGED <<repository, fileStatuses, diffLines, diffIdx, diffCurrentFile,
                   currentChangedLines, fileDiffs, hunkVars, bridgeVars, bfsVars, worldVars,
                   fileVars, analyzeVars, cliVars>>

\* The two git show and the loop over statusLines; a failure of git is
\* thrown again as an Error.
GitShow ==
    /\ pc = "show"
    /\ IF ~repository.showWorks
       THEN Throw("Failed to get changed files")
                /\ UNCHANGED <<fileStatuses, diffLines, diffIdx>>
       ELSE /\ diffLines' = RawDiffLines(repository.files)
            /\ fileStatuses' = ParseFileStatuses(StatusOutputLines(repository.files))
            /\ diffIdx' = 1
            /\ pc' = "diffLines"
            /\ UNCHANGED thrown
    /\ UNCHANGED <<repository, diffCurrentFile, currentChangedLines, fileDiffs,
                   hunkVars, bridgeVars, bfsVars, worldVars, fileVars, analyzeVars, cliVars>>

\* fileDiffs.push({ path: currentFile, status: ..., changedLines: [...] })
PushCurrentFile ==
    IF diffCurrentFile # <<>>
    THEN Append(fileDiffs,
                FileDiff(diffCurrentFile,
                         StatusOrModified(fileStatuses, diffCurrentFile),
                         currentChangedLines))
    ELSE fileDiffs

\* A mutant of GitDiffLine: the lines collected for a file are kept when
\* the header of the next file is read.
GitDiffLineKeepingLines ==
    /\ pc = "diffLines"
    /\ diffIdx <= Len(diffLines)
    /\ LET line == diffLines[diffIdx]
           fileMatch == FileMatch(line)
       IN  IF fileMatch # <<>>
           THEN /\ fileDiffs' = PushCurrentFile
                /\ diffCurrentFile' = fileMatch
                /\ UNCHANGED currentChangedLines
           ELSE /\ currentChangedLines' =
                       IF StartsWith(line, <<"@", "@">>)
                       THEN currentChangedLines \o parseHunkHeader(line)
                       ELSE currentChangedLines
                /\ UNCHANGED <<fileDiffs, diffCurrentFile>>
    /\ diffIdx' = diffIdx + 1
    /\ UNCHANGED <<pc, repository, fileStatuses, diffLines, thrown,
                   hunkVars, bridgeVars, bfsVars, worldVars, fileVars, analyzeVars, cliVars>>

\* for (const line of diffLines): one line.
GitDiffLine ==
    /\ pc = "diffLines"
    /\ diffIdx <= Len(diffLines)
    /\ LET line == diffLines[diffIdx]
           fileMatch == FileMatch(line)
       IN  IF fileMatch # <<>>
           THEN /\ fileDiffs' = PushCurrentFile
                /\ diffCurrentFile' = fileMatch
                /\ currentChangedLines' = <<>>
           ELSE /\ currentChangedLines' =
                       IF StartsWith(line, <<"@", "@">>)
                       THEN currentChangedLines \o parseHunkHeader(line)
                       ELSE currentChangedLines
                /\ UNCHANGED <<fileDiffs, diffCurrentFile>>
    /\ diffIdx' = diffIdx + 1
    /\ UNCHANGED <<pc, repository, fileStatuses, diffLines, thrown,
                   hunkVars, bridgeVars, bfsVars, worldVars, fileVars, analyzeVars, cliVars>>

\* The last file is pushed and fileDiffs is returned.
GitReturn ==
    /\ pc = "diffLines"
    /\ diffIdx > Len(diffLines)
    /\ fileDiffs' = PushCurrentFile
    /\ pc' = "returned"
    /\ UNCHANGED <<repository, fileStatuses, diffLines, diffIdx, diffCurrentFile,
                   currentChangedLines, thrown, hunkVars, bridgeVars, bfsVars, worldVars,
                   fileVars, analyzeVars, cliVars>>

GitNext ==
    \/ GitValidateRepository
    \/ GitValidateCommitSha
    \/ GitValidateParentAccess
    \/ GitShow
    \/ GitDiffLine
    \/ GitReturn

SpecGit == GitInit /\ [][GitNext]_vars

\* C13: getChangedFiles never throws ShallowCloneError for a root commit,
\* whatever rev-parse --is-shallow-repository answers; it throws it only
\* when the parent of the commit is cut off by the shallow history.
C13_RootCommitIsNotShallowError ==
    /\ repository.parent = "root" => thrown # <<"ShallowCloneError">>
    /\ thrown = <<"ShallowCloneError">> => repository.parent = "truncated"

\* What the commit does to the file of a returned FileDiff.
CommitFileOf(path) ==
    repository.files[CHOOSE i \in 1..Len(repository.files) :
                         repository.files[i].path = path]

GitShowIssued ==
    \/ pc \in {"diffLines", "returned"}
    \/ thrown = <<"Failed to get changed files">>

\* C26: getChangedFiles checks, in this order, that the path is a
\* repository, that the revision resolves and that the parent can be
\* reached, and issues git show only when all three pass; it fails with
\* the not-a-repository error, the invalid-revision error or
\* ShallowCloneError respectively, and with ShallowCloneError exactly when
\* the repository reports itself shallow and <commit>^ does not resolve.
C26_ValidationOrder ==
    LET reportsShallow == repository.isShallow = "true"
        parentResolves == repository.parent = "reachable"
    IN  /\ pc = "validateCommitSha" => repository.isRepo
        /\ pc \in {"validateParentAccess", "show"} =>
               repository.isRepo /\ repository.validSha
        /\ (pc = "show" \/ GitShowIssued) =>
               /\ repository.isRepo /\ repository.validSha
               /\ ~(reportsShallow /\ ~parentResolves)
        /\ pc = "thrown" =>
               /\ thrown = <<"not a valid Git repository">> <=> ~repository.isRepo
               /\ thrown = <<"Invalid commit SHA">>
                      <=> repository.isRepo /\ ~repository.validSha
               /\ thrown = <<"ShallowCloneError">>
                      <=> /\ repository.isRepo /\ repository.validSha
                          /\ reportsShallow /\ ~parentResolves
        /\ thrown # <<>> => pc = "thrown"

\* A shallow clone whose history stops at the commit: the two first checks
\* have passed and the third has thrown before any git show.
C26_Witness ==
    /\ pc = "thrown"
    /\ thrown = <<"ShallowCloneError">>
    /\ repository.isRepo /\ repository.validSha
    /\ repository.isShallow = "true"
    /\ repository.parent = "truncated"
    /\ diffLines = <<>> /\ fileStatuses = <<>> /\ fileDiffs = <<>>

\* A test file in the directory "plan b": git prints a path that holds a
\* space as it is, so its header reads diff --git a/plan b/... b/plan b/...
PathInPlanB == <<"plan", " b/", "a", ".spec", ".ts">>

\* The commits to one or two of the files a.spec.ts and plan b/a.spec.ts,
\* in a full clone where every git command works.
PathCommits ==
    {<<f>> : f \in CommitFilesOf(PathASpec) \cup CommitFilesOf(PathInPlanB)}
        \cup {<<f, g>> : f \in CommitFilesOf(PathASpec),
                         g \in CommitFilesOf(PathInPlanB)}
        \cup {<<g, f>> : f \in CommitFilesOf(PathASpec),
                         g \in CommitFilesOf(PathInPlanB)}

GitPathsInit ==
    /\ pc = "getChangedFiles"
    /\ HunkIdle /\ BridgeIdle /\ BfsIdle /\ WorldIdle /\ FileIdle /\ AnalyzeIdle /\ CliIdle
    /\ repository \in [isRepo : {TRUE}, validSha : {TRUE}, isShallow : {"false"},
                       parent : {"reachable"}, showWorks : {TRUE},
                       files : PathCommits]
    /\ fileStatuses = <<>>
    /\ diffLines = <<>>
    /\ diffIdx = 0
    /\ diffCurrentFile = <<>>
    /\ currentChangedLines = <<>>
    /\ fileDiffs = <<>>
    /\ thrown = <<>>

SpecGitPaths == GitPathsInit /\ [][GitNext]_vars

\* The lines of the new file a hunk header stands for.
HunkRange(h) == [k \in 1..h.newCount |-> h.newStart + k - 1]

RECURSIVE HunkRanges(_)
HunkRanges(hunks) ==
    IF hunks = <<>> THEN <<>> ELSE HunkRange(Head(hunks)) \o HunkRanges(Tail(hunks))

\* C25: getChangedFiles returns one FileChange per diff --git header of
\* the diff, in header order, with the path <new> of the header, and its
\* changedLines is the concatenation, in order, of the ranges of the hunk
\* headers between that header and the next one (or the end of the diff):
\* no hunk is attributed to another file.
C25_PerFileLineAttribution ==
    pc = "returned" =>
        /\ Len(fileDiffs) = Len(repository.files)
        /\ \A i \in 1..Len(fileDiffs) :
               /\ fileDiffs[i].path = repository.files[i].path
               /\ fileDiffs[i].changedLines = HunkRanges(repository.files[i].hunks)

(***************************************************************************)
(* The runner bridges: run-smart-tests.ps1 and run-smart-tests.sh.  Each   *)
(* runs the selector with --json, reads what it printed and invokes the    *)
(* test runner.                                                            *)
(***************************************************************************)

\* $GREP_LENGTH_THRESHOLD
GREP_LENGTH_THRESHOLD == 7000

\* A run of the selector: its exit status, the lines of its standard output
\* and whether it wrote to its standard error.
SelectorRun(status, out, err) ==
    [exitCode |-> status, stdout |-> out, stderr |-> err]

\* The reports whose JSON output the bridges are given: no result, tests
\* with static names, tests with dynamic names, both, and the fallback
\* report of main.
BridgeReports ==
    { AnalysisReport(rs, TotalTests(rs)) :
        rs \in {r \in AnalyzedResults(2, 2) : AnalyzeOrder(r)} }
        \cup { AnalysisReport(rs, 0) : rs \in FallbackResults }

\* The JSON output of a report with one test, in a.spec.ts, whose name is n
\* letters long.
LongGrepOutput(n) ==
    LET name == [i \in 1..n |-> "a"]
    IN  [files |-> <<PathASpec>>, tests |-> <<name>>, grep |-> name,
         filesWithDynamicTests |-> <<>>, hasDynamicTests |-> FALSE]

SelectorOutputs ==
    {toJsonOutput(r) : r \in BridgeReports}
        \cup {LongGrepOutput(GREP_LENGTH_THRESHOLD),
              LongGrepOutput(GREP_LENGTH_THRESHOLD + 1)}

\* The runs of the selector: it prints its JSON output and exits with 0,
\* with or without warnings on its standard error; npx prints a line of its
\* own before the JSON output; the selector fails, prints the degenerate
\* JSON and exits with 1; it dies before printing anything.
SelectorRuns ==
    {SelectorRun(0, <<JsonLine(o)>>, err) :
         o \in SelectorOutputs, err \in BOOLEAN}
    \cup {SelectorRun(0, <<TextLine("npx"), JsonLine(o)>>, FALSE) :
              o \in {toJsonOutput(AnalysisReport(<<>>, 0)),
                     LongGrepOutput(GREP_LENGTH_THRESHOLD)}}
    \cup {SelectorRun(1, <<JsonLine(DegenerateJson)>>, err) : err \in BOOLEAN}
    \cup {SelectorRun(1, <<>>, TRUE)}

\* What a bridge is run with: the script, whether the paths it validates
\* are there, -RunAll (ps1), whether jq is installed (sh), the run of the
\* selector and the exit status of the test runner.
BridgeEnvs ==
    {b \in [script : {"ps1", "sh"}, pathsValid : BOOLEAN, runAll : BOOLEAN,
            jqInstalled : BOOLEAN, selector : SelectorRuns,
            runnerExit : {0, 1}] :
        /\ b.script = "sh" => ~b.runAll
        /\ b.script = "ps1" => b.jqInstalled}

BridgeInit ==
    /\ pc = "bridge"
    /\ HunkIdle /\ GitIdle /\ BfsIdle /\ WorldIdle /\ FileIdle /\ AnalyzeIdle
    /\ CliIdle
    /\ bridgeEnv \in BridgeEnvs
    /\ selectorResult = <<>>
    /\ runnerCalls = <<>>
    /\ bridgeExit = <<>>

\* npx playwright test --grep pattern | file ... | (nothing)
RunnerCall(mode, grep, files) == [mode |-> mode, grep |-> grep, files |-> files]

\* exit $exitCode after an invocation of the runner, which answers
\* bridgeEnv.runnerExit.
RunAndExit(call) ==
    /\ runnerCalls' = Append(runnerCalls, call)
    /\ bridgeExit' = <<bridgeEnv.runnerExit>>
    /\ pc' = "bridge_exited"

\* exit with no invocation of the runner.
ExitBridge(status) ==
    /\ bridgeExit' = <<status>>
    /\ pc' = "bridge_exited"
    /\ UNCHANGED runnerCalls

Invoke_PlaywrightAll == RunnerCall("all", <<>>, <<>>)
Invoke_PlaywrightWithFiles(files) == RunnerCall("files", <<>>, files)
Invoke_PlaywrightWithGrep(grep) == RunnerCall("grep", grep, <<>>)

\* The validations of both scripts, and the -RunAll switch of the ps1.
BridgeStart ==
    /\ pc = "bridge"
    /\ IF ~bridgeEnv.pathsValid THEN ExitBridge(1)
       ELSE IF bridgeEnv.script = "ps1" /\ bridgeEnv.runAll
       THEN RunAndExit(Invoke_PlaywrightAll)
       ELSE pc' = "selector" /\ UNCHANGED <<runnerCalls, bridgeExit>>
    /\ UNCHANGED <<bridgeEnv, selectorResult, hunkVars, gitVars, bfsVars,
                   worldVars, fileVars, analyzeVars, cliVars>>

\* ConvertFrom-Json, jq: the text parses when it is one JSON document.
ParsesAsJson(text) == Len(text) = 1 /\ text[1].kind = "json"

\* Invoke-SmartSelector: standard output alone is read, the exit status of
\* the selector is not; an empty output and a text that does not parse
\* throw, and the catch leaves Success false.
Invoke_SmartSelector(run) ==
    IF run.stdout = <<>> \/ ~ParsesAsJson(run.stdout)
    THEN [Success |-> FALSE, Data |-> <<>>]
    ELSE [Success |-> TRUE, Data |-> run.stdout[1].object]

\* JSON_RAW=$(npx ts-node ... --json 2>&1) || { ...; JSON_RAW="" }
JSON_RAW(run) ==
    IF run.exitCode # 0 THEN <<>>
    ELSE (IF run.stderr THEN <<TextLine("stderr")>> ELSE <<>>) \o run.stdout

BridgeRunSelector ==
    /\ pc = "selector"
    /\ selectorResult' = IF bridgeEnv.script = "ps1"
                         THEN Invoke_SmartSelector(bridgeEnv.selector)
                         ELSE JSON_RAW(bridgeEnv.selector)
    /\ pc' = "selected"
    /\ UNCHANGED <<bridgeEnv, runnerCalls, bridgeExit, hunkVars, gitVars, bfsVars,
                   worldVars, fileVars, analyzeVars, cliVars>>

\* The if / elseif chain of the ps1 that chooses the invocation.
PsRunnerCall(data) ==
    LET hasDynamicTests == data.hasDynamicTests = TRUE
        filesWithDynamic == data.filesWithDynamicTests
    IN  IF hasDynamicTests /\ Len(filesWithDynamic) > 0
        THEN IF Len(data.files) > 0
             THEN Invoke_PlaywrightWithFiles(data.files)
             ELSE Invoke_PlaywrightAll
        ELSE IF Len(data.grep) > 0
        THEN IF Len(data.grep) > GREP_LENGTH_THRESHOLD
             THEN IF Len(data.files) > 0
                  THEN Invoke_PlaywrightWithFiles(data.files)
                  ELSE Invoke_PlaywrightAll
             ELSE Invoke_PlaywrightWithGrep(data.grep)
        ELSE IF Len(data.files) > 0
        THEN Invoke_PlaywrightWithFiles(data.files)
        ELSE Invoke_PlaywrightAll

\* The ps1 after Invoke-SmartSelector.
PsDispatch ==
    /\ pc = "selected"
    /\ bridgeEnv.script = "ps1"
    /\ IF ~selectorResult.Success THEN RunAndExit(Invoke_PlaywrightAll)
       ELSE IF Len(selectorResult.Data.files) = 0 THEN ExitBridge(0)
       ELSE RunAndExit(PsRunnerCall(selectorResult.Data))
    /\ UNCHANGED <<bridgeEnv, selectorResult, hunkVars, gitVars, bfsVars,
                   worldVars, fileVars, analyzeVars, cliVars>>

\* jq -r '.files[]' and jq -r '.grep', each with 2>/dev/null || echo "".
JqFiles(text) == IF ParsesAsJson(text) THEN text[1].object.files ELSE <<>>
JqGrep(text) == IF ParsesAsJson(text) THEN text[1].object.grep ELSE <<>>

\* The sh after the capture of JSON_RAW.
ShDispatch ==
    /\ pc = "selected"
    /\ bridgeEnv.script = "sh"
    /\ IF selectorResult = <<>> THEN ExitBridge(0)
       ELSE IF ~bridgeEnv.jqInstalled THEN ExitBridge(1)
       ELSE LET FILES_ARRAY == JqFiles(selectorResult)
                GREP == JqGrep(selectorResult)
            IN  IF Len(FILES_ARRAY) = 0 THEN ExitBridge(0)
                ELSE IF GREP # <<>>
                THEN RunAndExit(Invoke_PlaywrightWithGrep(GREP))
                ELSE RunAndExit(Invoke_PlaywrightWithFiles(FILES_ARRAY))
    /\ UNCHANGED <<bridgeEnv, selectorResult, hunkVars, gitVars, bfsVars,
                   worldVars, fileVars, analyzeVars, cliVars>>

BridgeNext ==
    \/ BridgeStart
    \/ BridgeRunSelector
    \/ PsDispatch
    \/ ShDispatch

SpecBridge == BridgeInit /\ [][BridgeNext]_vars

\* The bridge has gone past its validations and read a JSON output that
\* lists at least one file.
BridgeSelected ==
    /\ pc = "bridge_exited"
    /\ bridgeEnv.pathsValid /\ ~bridgeEnv.runAll /\ bridgeEnv.jqInstalled
    /\ bridgeEnv.selector.exitCode = 0
    /\ ParsesAsJson(bridgeEnv.selector.stdout)
    /\ ~bridgeEnv.selector.stderr
    /\ Len(bridgeEnv.selector.stdout[1].object.files) > 0

\* C15: the bridge passes --grep only when grep is non-empty and the
\* report has no dynamic test; with dynamic tests, or with a pattern longer
\* than the threshold, it passes the list of the impacted files; so every
\* file of filesWithDynamicTests is among the files that are run.
C15_GrepOnlyWithoutDynamicTests ==
    BridgeSelected =>
        LET data == bridgeEnv.selector.stdout[1].object
        IN  /\ Len(runnerCalls) = 1
            /\ runnerCalls[1].mode = "grep" =>
                   /\ data.grep # <<>>
                   /\ runnerCalls[1].grep = data.grep
                   /\ ~data.hasDynamicTests
            /\ (data.hasDynamicTests \/ Len(data.grep) > GREP_LENGTH_THRESHOLD) =>
                   runnerCalls[1] = RunnerCall("files", <<>>, data.files)
            /\ \A f \in Range(data.filesWithDynamicTests) :
                   \/ runnerCalls[1].mode = "all"
                   \/ runnerCalls[1].mode = "files" /\ f \in Range(runnerCalls[1].files)

\* The selector failed, or printed nothing a bridge can use.
SelectorFailed(run) ==
    \/ run.exitCode # 0
    \/ run.stdout = <<>>
    \/ ~ParsesAsJson(run.stdout)
    \/ run.stdout[1].object = DegenerateJson

\* C16: when the selector fails or prints nothing usable, the bridge runs
\* the full suite; it never exits with status 0 without having invoked the
\* runner.
C16_FullSuiteOnSelectorFailure ==
    (/\ pc = "bridge_exited"
     /\ bridgeEnv.pathsValid /\ bridgeEnv.jqInstalled
     /\ SelectorFailed(bridgeEnv.selector)) =>
        /\ runnerCalls = <<Invoke_PlaywrightAll>>
        /\ bridgeExit = <<0>> => runnerCalls # <<>>

(***************************************************************************)
(* index.ts -- the --all mode: analyze is given every source file of the   *)
(* project outside node_modules as MODIFIED with no changed line, no       *)
(* parent revision and no git service.                                     *)
(***************************************************************************)

\* The import declarations the scanned projects are made of.
ScanAllImports ==
    { <<FileASpec, <<".", "/", "h">>>>, <<FileASpec, <<"v">>>>,
      <<FileBTest, <<".", "/", "k">>>>, <<FileH, <<".", "/", "k">>>>,
      <<FileH2, <<".", "/", "h">>>> }

\* project.getSourceFiles() promises no order: every order of a list.
RECURSIVE Orders(_)
Orders(s) ==
    IF s = <<>> THEN {<<>>}
    ELSE UNION { {<<s[i]>> \o rest :
                    rest \in Orders(SelectSeq(s, LAMBDA x : x # s[i]))} :
                 i \in 1..Len(s) }

ScanAllInit ==
    /\ pc = "analyze"
    /\ HunkIdle /\ BridgeIdle /\ GitIdle /\ BfsIdle /\ FileIdle /\ CliIdle
    /\ \E E \in SUBSET ScanAllImports : imports = GraphOf(E)
    /\ disk \in AnalyzeDisks
    /\ parentTree = (PathASpec :> ParentNull) @@ (PathBTest :> ParentNull)
    /\ prevCommitSha = FALSE
    /\ gitService = FALSE
    /\ changedFiles \in Orders(AllSourceFiles)
    /\ fileIdx = 1
    /\ fileResults = <<>>
    /\ processedTestFiles = {}
    /\ report = <<>>
    /\ previousReport = <<>>

\* Every file of the scan is a .ts file that is MODIFIED.
ScanAllNext ==
    \/ AnalyzeTestFileChange
    \/ AnalyzeSourceFileChange
    \/ AnalyzeReturn

SpecScanAll == ScanAllInit /\ [][ScanAllNext]_vars

\* The first-party test files of the project.
FirstPartyTestFiles ==
    {f \in Range(ProjectFiles) : isTestFile(f) /\ ~Includes(f, <<"node_modules">>)}

\* A declaration of the file f is in the report.
Reported(f, block) ==
    \E i \in 1..Len(report.fileResults) :
        /\ report.fileResults[i].filePath = RelativePath(f)
        /\ \E j \in 1..Len(report.fileResults[i].tests) :
               /\ report.fileResults[i].tests[j].testName = block.name
               /\ report.fileResults[i].tests[j].isDynamic = block.isDynamic

\* C18: with --all, every test declaration of every first-party test file
\* of the project is in the report, whatever the file imports.
C18_ScanAllCoversAllTests ==
    pc = "analyzed_all" =>
        \A f \in FirstPartyTestFiles :
            disk[f].ok =>
                \A block \in Range(extractTestBlocks(disk[f].calls)) :
                    Reported(f, block)

\* C19: with --all (every change MODIFIED with no changed line, no parent
\* revision), no reported test is DIRECT or REMOVED: each is DEPENDENCY.
C19_ScanAllOnlyDependency ==
    /\ \A i \in 1..Len(changedFiles) : changedFiles[i].changedLines = <<>>
    /\ \A i \in 1..Len(fileResults) :
           \A j \in 1..Len(fileResults[i].tests) :
               fileResults[i].tests[j].impactType = "DEPENDENCY"
    /\ pc = "analyzed_all" =>
           /\ report.fileResults = fileResults
           /\ report.totalTestsSelected = TotalTests(fileResults)

\* Both test files import a helper and their four tests are reported.
C19_Witness ==
    /\ pc = "analyzed_all"
    /\ Len(report.fileResults) = 2
    /\ report.totalTestsSelected = 4
    /\ \A i \in 1..2 : \A j \in 1..2 :
           report.fileResults[i].tests[j].impactType = "DEPENDENCY"

(***************************************************************************)
(* Two calls of analyze, one after the other, on the same changes, the     *)
(* same project, the same working tree and the same parent revision.       *)
(***************************************************************************)

TwiceInit ==
    /\ pc = "analyze"
    /\ HunkIdle /\ BridgeIdle /\ GitIdle /\ BfsIdle /\ FileIdle /\ CliIdle
    /\ imports = GraphOf(AnalyzeImports)
    /\ disk \in {d \in AnalyzeDisks :
                    d[FileBTest] = Readable(<<TestC(<<1, 2>>), TestA(<<2, 2>>)>>)}
    /\ parentTree \in {t \in AnalyzeParents : t[PathASpec] # ParentThrows}
    /\ prevCommitSha = TRUE
    /\ gitService = TRUE
    /\ changedFiles \in {l \in ChangeLists(MaxChanges) : DistinctPaths(l)}
    /\ fileIdx = 1
    /\ fileResults = <<>>
    /\ processedTestFiles = {}
    /\ report = <<>>
    /\ previousReport = <<>>

\* A mutant of NewProcessedTestFiles: the set is a field of the Analyzer,
\* kept from one call to the next.
NewProcessedTestFilesKept == processedTestFiles

\* const processedTestFiles = new Set<string>()
NewProcessedTestFiles == {}

\* analyze is called again with the same arguments: its locals are new.
AnalyzeAgain ==
    /\ pc = "analyzed_all"
    /\ previousReport = <<>>
    /\ previousReport' = <<report>>
    /\ fileIdx' = 1
    /\ fileResults' = <<>>
    /\ processedTestFiles' = NewProcessedTestFiles
    /\ report' = <<>>
    /\ pc' = "analyze"
    /\ UNCHANGED <<changedFiles, hunkVars, bridgeVars, gitVars, bfsVars, worldVars,
                   fileVars, cliVars>>

TwiceNext == AnalyzeNext \/ AnalyzeAgain

SpecTwice == TwiceInit /\ [][TwiceNext]_vars

PathKTsx == <<"k", ".tsx">>

\* What the commits of the selection say of a file.
SelectDiffs ==
    { FileDiff(PathASpec, "MODIFIED", <<>>), FileDiff(PathASpec, "MODIFIED", <<1>>),
      FileDiff(PathASpec, "DELETED", <<>>),
      FileDiff(PathBTest, "MODIFIED", <<1>>), FileDiff(PathBTest, "RENAMED", <<>>),
      FileDiff(PathH, "MODIFIED", <<1>>),
      FileDiff(PathK, "ADDED", <<1>>), FileDiff(PathK, "DELETED", <<>>),
      FileDiff(PathKTsx, "MODIFIED", <<1>>) }

\* The lists of at most n of them, one per path at most.
RECURSIVE SelectChangeLists(_)
SelectChangeLists(n) ==
    IF n = 0 THEN {<<>>}
    ELSE LET shorter == SelectChangeLists(n - 1)
         IN  shorter \cup
                 UNION { {Append(l, d) :
                             d \in {e \in SelectDiffs :
                                       \A i \in 1..Len(l) : l[i].path # e.path}} :
                         l \in shorter }

\* test('', ...): a test whose name is the empty string.
TestEmptyName(span) == Call("test", "StringLiteral", <<"'", "'">>, span)

\* The working trees of the selection: b.test.ts declares c and a;
\* a.spec.ts declares a and a test with a dynamic name, or a alone, or a
\* test with the empty name, or cannot be read.
SelectDisks ==
    { (FileASpec :> a)
          @@ (FileBTest :> Readable(<<TestC(<<1, 2>>), TestA(<<2, 2>>)>>)) :
        a \in { Readable(<<TestA(<<1, 1>>), TestU(<<2, 3>>)>>),
                Readable(<<TestA(<<1, 2>>)>>),
                Readable(<<TestEmptyName(<<1, 1>>)>>), Unreadable } }

\* A test file the commit deletes is not in the working tree, and so not in
\* the project.  The parent revisions of the selection: a.spec.ts is new, or held the
\* tests a and c, or held one test with a dynamic name.
SelectParents ==
    { (PathASpec :> a) @@ (PathBTest :> ParentText(<<TestC(<<1, 1>>)>>)) :
        a \in { ParentNull, ParentText(<<TestA(<<1, 1>>), TestC(<<1, 1>>)>>),
                 ParentText(<<TestU(<<1, 1>>)>>) } }

SelectInit ==
    /\ pc = "analyze"
    /\ HunkIdle /\ BridgeIdle /\ GitIdle /\ BfsIdle /\ FileIdle /\ CliIdle
    /\ \E E \in SUBSET AnalyzeImports : imports = GraphOf(E)
    /\ disk \in SelectDisks
    /\ parentTree \in SelectParents
    /\ prevCommitSha = TRUE
    /\ gitService = TRUE
    /\ changedFiles \in SelectChangeLists(MaxChanges)
    /\ FileDiff(PathASpec, "DELETED", <<>>) \in Range(changedFiles) =>
           disk[FileASpec] = Unreadable /\ imports[FileASpec] = {}
    /\ fileIdx = 1
    /\ fileResults = <<>>
    /\ processedTestFiles = {}
    /\ report = <<>>
    /\ previousReport = <<>>

\* catch (error) { ... report = { ..., fileResults: fallbackResults,
\* totalTestsSelected: 0 } }: analyze has thrown somewhere in its loop.
MainAnalyzeCatch ==
    /\ pc = "analyze"
    /\ report' = FallbackReport(changedFiles)
    /\ pc' = "fallback"
    /\ UNCHANGED <<changedFiles, fileIdx, fileResults, processedTestFiles,
                   previousReport, hunkVars, bridgeVars, gitVars, bfsVars,
                   worldVars, fileVars, cliVars>>

\* const jsonOutput = toJsonOutput(report)
MainToJsonOutput ==
    /\ pc \in {"analyzed_all", "fallback"}
    /\ jsonOutput = <<>>
    /\ jsonOutput' = toJsonOutput(report)
    /\ UNCHANGED <<pc, options, env, stdout, exitCode, analyzeVars, hunkVars,
                   bridgeVars, gitVars, bfsVars, worldVars, fileVars>>

SelectNext == AnalyzeNext \/ MainAnalyzeCatch \/ MainToJsonOutput

SpecSelect == SelectInit /\ [][SelectNext]_vars

\* The positions (i, j) of the tests of a list of results.
TestPositions(results) ==
    UNION { {<<i, j>> : j \in 1..Len(results[i].tests)} : i \in 1..Len(results) }

\* C21: totalTestsSelected of every AnalysisReport, the one analyze returns
\* and the fallback report main builds when analyze throws, is the sum of
\* tests.length over its fileResults.
C21_TotalIsSumOfTests ==
    pc \in {"analyzed_all", "fallback"} =>
        report.totalTestsSelected = Cardinality(TestPositions(report.fileResults))

\* analyze has returned two results that hold four tests in all.
C21_Witness ==
    /\ pc = "analyzed_all"
    /\ Len(report.fileResults) = 2
    /\ Cardinality(TestPositions(report.fileResults)) = 4
    /\ report.totalTestsSelected = 4

\* C22: in every FileAnalysisResult of analyze, hasDynamicTests is true
\* exactly when one of its tests has isDynamic = true, whether the tests
\* are DIRECT, DEPENDENCY or REMOVED.
C22_FlagIffDynamicTest ==
    \A i \in 1..Len(fileResults) :
        fileResults[i].hasDynamicTests
            <=> \E t \in Range(fileResults[i].tests) : t.isDynamic

\* The run has produced a flagged result whose dynamic test is REMOVED, or
\* DEPENDENCY, and a result that is not flagged for a file that declares a
\* dynamic test no changed line meets.
C22_Witness ==
    /\ pc = "analyzed_all"
    /\ \E i \in 1..Len(fileResults) :
           /\ fileResults[i].hasDynamicTests
           /\ \E t \in Range(fileResults[i].tests) :
                  t.isDynamic /\ t.impactType \in {"REMOVED", "DEPENDENCY"}
    /\ \E i \in 1..Len(fileResults) :
           /\ ~fileResults[i].hasDynamicTests
           /\ fileResults[i].filePath = PathASpec
           /\ fileResults[i].tests # <<>>
           /\ disk[FileASpec] = Readable(<<TestA(<<1, 1>>), TestU(<<2, 3>>)>>)

\* The step of the loop of analyze for changedFiles[fileIdx] reports, in a
\* result it pushes, every current declaration of the test file T as
\* DEPENDENCY.
PushesAsDependency(T) ==
    disk[T].ok =>
        \E i \in (Len(fileResults) + 1)..Len(fileResults') :
            /\ fileResults'[i].filePath = RelativePath(T)
            /\ \A t \in Range(fileResults'[i].tests) : t.impactType = "DEPENDENCY"
            /\ \A b \in Range(extractTestBlocks(disk[T].calls)) :
                   \E t \in Range(fileResults'[i].tests) :
                       t.testName = b.name /\ t.isDynamic = b.isDynamic

\* C23: for every changed file that is not a test file and is not DELETED,
\* analyze resolves its transitive test importers and, for each of them not
\* yet processed in the run, reports every current declaration of that
\* file with impactType DEPENDENCY.
C23_DependencyDispatch ==
    [][(pc = "analyze" /\ fileIdx <= Len(changedFiles) /\ fileIdx' = fileIdx + 1) =>
          LET diff == changedFiles[fileIdx]
          IN  (~isTestFile(diff.path) /\ diff.status # "DELETED") =>
                  \A T \in Range(findDependentTestFiles(imports,
                                                        ResolvePath(diff.path))) :
                      T \notin processedTestFiles => PushesAsDependency(T)]_vars

\* The declaration b of the test file T is in the report, as a DIRECT or
\* as a DEPENDENCY test of a result of that file.
Selected(T, b) ==
    \E i \in 1..Len(report.fileResults) :
        /\ report.fileResults[i].filePath = RelativePath(T)
        /\ \E t \in Range(report.fileResults[i].tests) :
               /\ t.testName = b.name
               /\ t.isDynamic = b.isDynamic
               /\ t.impactType \in {"DIRECT", "DEPENDENCY"}

\* C27: for every changed .ts file S that is not a test file and is not
\* DELETED, and every test file T that imports S directly or through
\* helpers, every current declaration of T is in the report of analyze,
\* also when T itself is among the changes, in every order of the changes.
C27_SelectionIsSafe ==
    pc = "analyzed_all" =>
        \A i \in 1..Len(changedFiles) :
            LET S == changedFiles[i]
            IN  (/\ ~isTestFile(S.path)
                 /\ EndsWith(S.path, <<".ts">>)
                 /\ S.status # "DELETED") =>
                    \A T \in ChainTests(ResolvePath(S.path)) :
                        disk[T].ok =>
                            \A b \in Range(extractTestBlocks(disk[T].calls)) :
                                Selected(T, b)

\* The (file, test name, impact type) triples a report selects.
Triples(r) ==
    UNION { {<<r.fileResults[i].filePath, t.testName, t.impactType>> :
                t \in Range(r.fileResults[i].tests)} :
            i \in 1..Len(r.fileResults) }

\* C28: analyze selects the same set of (file, test name, impact type)
\* triples for every ordering of the same FileChanges, the project, the
\* working tree and the parent revision being the same.
C28_OrderIndependence ==
    pc = "analyzed_all" =>
        \A reordered \in Orders(changedFiles) :
            Triples(analyze(reordered, imports, disk, prevCommitSha, gitService,
                            parentTree))
                = Triples(report)

\* The tests of the report analyze returned, each with the path of the
\* result that holds it.
ReportedTests ==
    UNION { {[filePath |-> report.fileResults[i].filePath, test |-> t] :
                t \in Range(report.fileResults[i].tests)} :
            i \in 1..Len(report.fileResults) }

\* What the output says of itself, whatever the tests: the files with
\* dynamic tests are among the files, and the flag tells whether there are
\* any.
OutputIsCoherent ==
    /\ Range(jsonOutput.filesWithDynamicTests) \subseteq Range(jsonOutput.files)
    /\ jsonOutput.hasDynamicTests <=> jsonOutput.filesWithDynamicTests # <<>>

\* C29, as claimed: for every test t of a report returned by analyze,
\* toJsonOutput puts t's file in `files`, and either t's name is in `tests`
\* and is an alternative of `grep`, or t's file is in
\* `filesWithDynamicTests`; filesWithDynamicTests is a subset of files and
\* hasDynamicTests is true exactly when filesWithDynamicTests is not empty.
C29_NoTestLost ==
    (pc = "analyzed_all" /\ jsonOutput # <<>>) =>
        /\ \A e \in ReportedTests :
               /\ e.filePath \in Range(jsonOutput.files)
               /\ e.test.fileName \in Range(jsonOutput.files)
               /\ \/ /\ e.test.testName \in Range(jsonOutput.tests)
                     /\ e.test.testName \in Range(GrepAlternatives(jsonOutput.grep))
                  \/ e.filePath \in Range(jsonOutput.filesWithDynamicTests)
        /\ OutputIsCoherent

\* C29 (amended): the same, but a name of `tests` is an alternative of
\* `grep` only when `grep` is not empty: `grep` is empty although `tests`
\* is not when the one name of `tests` is the empty name.
C29_NoTestLostButEmptyGrep ==
    (pc = "analyzed_all" /\ jsonOutput # <<>>) =>
        /\ \A e \in ReportedTests :
               /\ e.filePath \in Range(jsonOutput.files)
               /\ e.test.fileName \in Range(jsonOutput.files)
               /\ \/ /\ e.test.testName \in Range(jsonOutput.tests)
                     /\ \/ e.test.testName \in Range(GrepAlternatives(jsonOutput.grep))
                        \/ /\ jsonOutput.grep = <<>>
                           /\ jsonOutput.tests = << <<>> >>
                           /\ e.test.testName = <<>>
                  \/ e.filePath \in Range(jsonOutput.filesWithDynamicTests)
        /\ OutputIsCoherent

\* The report holds a.spec.ts, taken as a whole for its dynamic test, and
\* b.test.ts, whose two names are listed and are the alternatives of grep.
C29_Witness ==
    /\ pc = "analyzed_all"
    /\ jsonOutput # <<>>
    /\ Len(report.fileResults) = 2
    /\ jsonOutput.filesWithDynamicTests = <<PathASpec>>
    /\ Range(jsonOutput.files) = {PathASpec, PathBTest}
    /\ jsonOutput.tests = << <<"c">>, <<"a">> >>
    /\ jsonOutput.grep = <<"c", "|", "a">>

\* A result without tests is that of a test file the changes name as
\* DELETED.
EmptyResultsAreDeletedTestFiles ==
    \A i \in 1..Len(fileResults) :
        fileResults[i].tests = <<>> =>
            /\ fileResults[i].status = "DELETED"
            /\ isTestFile(fileResults[i].filePath)
            /\ FileDiff(fileResults[i].filePath, "DELETED", <<>>)
                   \in Range(changedFiles)

\* The step of the loop for a test file that is not DELETED and yields no
\* tests pushes nothing and marks nothing; the step for a source file
\* neither pushes nor marks a dependent that yields no tests.
NoTestsLeavesNoTrace ==
    (pc = "analyze" /\ fileIdx <= Len(changedFiles) /\ fileIdx' = fileIdx + 1) =>
        LET diff == changedFiles[fileIdx]
        IN  /\ (/\ isTestFile(diff.path)
                /\ diff.status \in {"ADDED", "MODIFIED", "RENAMED"}
                /\ analyzeTestFile(diff, disk[ResolvePath(diff.path)],
                                   prevCommitSha, gitService,
                                   parentTree[diff.path]).tests = <<>>) =>
                   /\ fileResults' = fileResults
                   /\ processedTestFiles' = processedTestFiles
            /\ (/\ ~isTestFile(diff.path)
                /\ EndsWith(diff.path, <<".ts">>)
                /\ diff.status # "DELETED") =>
                   \A T \in Range(findDependentTestFiles(imports,
                                                         ResolvePath(diff.path))) :
                       (/\ T \notin processedTestFiles
                        /\ analyzeDependentTestFile(T, diff, disk[T]).tests = <<>>) =>
                           /\ T \notin processedTestFiles'
                           /\ \A i \in (Len(fileResults) + 1)..Len(fileResults') :
                                  fileResults'[i].filePath # RelativePath(T)

\* C30: in every report of analyze a FileAnalysisResult with an empty
\* tests list has status DELETED and is a test file named in the changes;
\* an ADDED, MODIFIED or RENAMED test file, and a dependent test file,
\* that yields no tests is not put in fileResults and is not marked as
\* processed, so that a later change of the run can still select it.
C30_EmptyResultsOnlyForDeleted ==
    /\ [](/\ EmptyResultsAreDeletedTestFiles
          /\ pc = "analyzed_all" => report.fileResults = fileResults)
    /\ [][NoTestsLeavesNoTrace]_vars

\* b.test.ts is renamed without a change and yields no tests; the change of
\* k.ts that follows selects it as a dependent, with its two tests.
C30_Witness ==
    /\ pc = "analyzed_all"
    /\ changedFiles = <<FileDiff(PathBTest, "RENAMED", <<>>),
                        FileDiff(PathK, "ADDED", <<1>>)>>
    /\ Len(report.fileResults) = 1
    /\ report.fileResults[1].filePath = PathBTest
    /\ Len(report.fileResults[1].tests) = 2
    /\ \A t \in Range(report.fileResults[1].tests) : t.impactType = "DEPENDENCY"

====
